---------------------------- MODULE Spec2Model ----------------------------
(***************************************************************************)
(* Model of the tool-routing pipeline of ProductReviewAnalyst:             *)
(*   classifier (route_tool) -> validate_tool_call -> run_tool ->          *)
(*   session view update -> write_response / apply_state_aware_response -> *)
(*   log_trace, as driven by the Streamlit scripts app/Analytics_Chat.py   *)
(*   and app/streamlit_app.py.                                             *)
(*                                                                         *)
(* Python values are records [k, s, n]: k is the run-time type, s the      *)
(* string payload, n the numeric payload.  Category strings carry their    *)
(* text as a sequence of characters so that str.strip() is computed;       *)
(* enum-like strings (tool, query_type, metric) carry a TLA+ string.       *)
(***************************************************************************)
EXTENDS Integers, Sequences, FiniteSets, TLC

(***************************************************************************)
(* Bounds of the model                                                     *)
(***************************************************************************)
\* longest category string the classifier emits in the validator-only runs
MaxStrLen == 2
\* chat turns per session (chat_messages grows by two entries per turn)
MaxTurns == 2
\* admin re-assignments of the session user's categories
MaxAccessVersion == 2

(***************************************************************************)
(* Python values                                                           *)
(***************************************************************************)
\* enum-like / numeric values
Missing    == [k |-> "missing", s |-> "", n |-> 0]
NoneV      == [k |-> "none",    s |-> "", n |-> 0]
ListV      == [k |-> "list",    s |-> "", n |-> 0]
StrV(x)    == [k |-> "str",     s |-> x,  n |-> 0]
IntV(i)    == [k |-> "int",     s |-> "", n |-> i]
FloatV(i)  == [k |-> "float",   s |-> "", n |-> i]
BoolV(b)   == [k |-> "bool",    s |-> "", n |-> IF b THEN 1 ELSE 0]

\* category-like values: the text is a sequence of characters
CMissing   == [k |-> "missing", s |-> <<>>, n |-> 0]
CNone      == [k |-> "none",    s |-> <<>>, n |-> 0]
CList      == [k |-> "list",    s |-> <<>>, n |-> 0]
CInt(i)    == [k |-> "int",     s |-> <<>>, n |-> i]
CStr(x)    == [k |-> "str",     s |-> x,    n |-> 0]

\* isinstance(v, str) / isinstance(v, int): bool is a subclass of int
IsStr(v) == v.k = "str"
IsInt(v) == v.k \in {"int", "bool"}
\* list and dict values are unhashable: `v in {...}` raises TypeError
Unhashable(v) == v.k \in {"list", "dict"}
\* dict.get(key, default)
Get(v, default) == IF v.k = "missing" THEN default ELSE v

\* str.strip(): drop leading and trailing whitespace
RECURSIVE lstrip(_)
lstrip(s) == IF s # <<>> /\ Head(s) = " " THEN lstrip(Tail(s)) ELSE s
RECURSIVE rstrip(_)
rstrip(s) == IF s # <<>> /\ s[Len(s)] = " " THEN rstrip(SubSeq(s, 1, Len(s) - 1)) ELSE s
strip(s) == rstrip(lstrip(s))

(***************************************************************************)
(* The dataset: category names and their number of rated reviews           *)
(***************************************************************************)
CatA == <<"A">>
CatB == <<"B">>
CatC == <<"C">>
\* categories of the analytics frame (already stripped by extract_categories)
DatasetCategories == {CatA, CatB, CatC}
\* review_count of category_metrics over the full frame
ReviewCount(c) == IF c = CatC THEN 5 ELSE 12
\* "Remove categories with < 10 reviews"
MinReviews == 10

(***************************************************************************)
(* Tool calls                                                              *)
(***************************************************************************)
ALLOWED_TOOLS == {"metrics_top_categories", "sentiment_summary", "rating_distribution",
                  "general_query", "compare_categories"}
QueryTypes == {"count_categories", "list_categories", "category_info", "summary_stats"}
Metrics == {"review_count", "nps", "avg_rating"}

\* an args mapping; k = "dict" for a mapping, absent keys are Missing
NoArgs == [k |-> "dict", query_type |-> Missing, category |-> CMissing,
           top_n |-> Missing, metric |-> Missing, max_reviews |-> Missing,
           category_a |-> CMissing, category_b |-> CMissing]
\* a non-mapping args value (JSON array, string, null)
NotADict == [NoArgs EXCEPT !.k = "list"]

NoReason == "<absent>"
ReasonInvalidTool == "I couldn't determine a valid action for that request."
ReasonCategoryInfo == "That category isn't available based on your access, so I'm showing overall summary statistics instead."
ReasonMissingCompare == "I couldn't identify two valid categories to compare."
ReasonSameCategory == "You asked to compare the same category with itself, so I showed its rating distribution instead."
ReasonCompareNotAllowed == "One or both of the categories you asked to compare aren't available based on your access."
ReasonMissingCategory == "I couldn't identify which category you meant."
ReasonCategoryNotAllowed == "That category isn't available based on your access."
ReasonDefault == "I couldn't safely complete that request, so I showed a general overview instead."

\* Call showing the candidate's rationale as the reason when it has one
Call_RationaleAsReason(tool, args, rationale, reason) ==
    [raised |-> FALSE, tool |-> tool, args |-> args, rationale |-> rationale,
     fallback_reason |-> IF rationale.k = "str" THEN rationale.s ELSE reason]

\* a returned call; raised = TRUE stands for an exception leaving the function
Call(tool, args, rationale, reason) ==
    [raised |-> FALSE, tool |-> tool, args |-> args, rationale |-> rationale,
     fallback_reason |-> reason]
Raised == [raised |-> TRUE, tool |-> "", args |-> NoArgs, rationale |-> Missing,
           fallback_reason |-> NoReason]
NoCall == [raised |-> FALSE, tool |-> "", args |-> NoArgs, rationale |-> Missing,
           fallback_reason |-> NoReason]

DefaultTopArgs == [NoArgs EXCEPT !.top_n = IntV(15), !.metric = StrV("review_count")]

\* validate_general_query downgrading category_info without a fallback_reason
validate_general_query_SilentDowngrade(tc, args, allowed_categories) ==
    LET qt0 == Get(args.query_type, StrV("summary_stats")) IN
    IF Unhashable(qt0) THEN Raised
    ELSE
      LET query_type == IF IsStr(qt0) /\ qt0.s \in QueryTypes THEN qt0.s ELSE "summary_stats"
          rationale == Get(tc.rationale, StrV(""))
          cat == args.category
      IN IF query_type = "category_info"
            /\ IsStr(cat) /\ strip(cat.s) # <<>> /\ strip(cat.s) \in allowed_categories
         THEN Call("general_query",
                   [NoArgs EXCEPT !.query_type = StrV("category_info"),
                                  !.category = CStr(strip(cat.s))],
                   rationale, NoReason)
         ELSE Call("general_query",
                   [NoArgs EXCEPT !.query_type =
                       StrV(IF query_type = "category_info" THEN "summary_stats"
                            ELSE query_type)],
                   rationale, NoReason)

\* validator.py 28-55
validate_general_query(tc, args, allowed_categories) ==
    LET qt0 == Get(args.query_type, StrV("summary_stats")) IN
    IF Unhashable(qt0) THEN Raised
    ELSE
      LET query_type == IF IsStr(qt0) /\ qt0.s \in QueryTypes THEN qt0.s ELSE "summary_stats"
          rationale == Get(tc.rationale, StrV(""))
          cat == args.category
      IN IF query_type = "category_info"
         THEN IF IsStr(cat) /\ strip(cat.s) # <<>> /\ strip(cat.s) \in allowed_categories
              THEN Call("general_query",
                        [NoArgs EXCEPT !.query_type = StrV("category_info"),
                                       !.category = CStr(strip(cat.s))],
                        rationale, NoReason)
              ELSE Call("general_query",
                        [NoArgs EXCEPT !.query_type = StrV("summary_stats")],
                        rationale, ReasonCategoryInfo)
         ELSE Call("general_query", [NoArgs EXCEPT !.query_type = StrV(query_type)],
                   rationale, NoReason)

\* validator.py 58-71
validate_metrics_top_categories(tc, args) ==
    LET tn0 == Get(args.top_n, IntV(15))
        top_n == IF ~IsInt(tn0) \/ tn0.n < 1 \/ tn0.n > 52 THEN IntV(15) ELSE tn0
        m0 == Get(args.metric, StrV("review_count"))
    IN IF Unhashable(m0) THEN Raised
       ELSE LET metric == IF IsStr(m0) /\ m0.s \in Metrics THEN m0 ELSE StrV("review_count")
            IN Call("metrics_top_categories",
                    [NoArgs EXCEPT !.top_n = top_n, !.metric = metric],
                    Get(tc.rationale, StrV("")), NoReason)

\* validate_compare_categories testing membership before equality
validate_compare_categories_MembershipFirst(tc, args, allowed_categories) ==
    LET a0 == args.category_a
        b0 == args.category_b
    IN IF ~IsStr(a0) \/ strip(a0.s) = <<>> \/ ~IsStr(b0) \/ strip(b0.s) = <<>>
       THEN Call("metrics_top_categories", DefaultTopArgs,
                 StrV("fallback_missing_compare_categories"), ReasonMissingCompare)
       ELSE LET a == strip(a0.s)
                b == strip(b0.s)
            IN IF a \notin allowed_categories \/ b \notin allowed_categories
               THEN Call("metrics_top_categories", DefaultTopArgs,
                         StrV("fallback_compare_category_not_allowed"),
                         ReasonCompareNotAllowed)
               ELSE IF a = b
               THEN Call("rating_distribution", [NoArgs EXCEPT !.category = CStr(a)],
                         StrV("fallback_same_category_compare"), ReasonSameCategory)
               ELSE Call("compare_categories",
                         [NoArgs EXCEPT !.category_a = CStr(a), !.category_b = CStr(b)],
                         Get(tc.rationale, StrV("")), NoReason)

\* validator.py 74-109
validate_compare_categories(tc, args, allowed_categories) ==
    LET a0 == args.category_a
        b0 == args.category_b
    IN IF ~IsStr(a0) \/ strip(a0.s) = <<>> \/ ~IsStr(b0) \/ strip(b0.s) = <<>>
       THEN Call("metrics_top_categories", DefaultTopArgs,
                 StrV("fallback_missing_compare_categories"), ReasonMissingCompare)
       ELSE LET a == strip(a0.s)
                b == strip(b0.s)
            IN IF a = b
               THEN Call("rating_distribution", [NoArgs EXCEPT !.category = CStr(a)],
                         StrV("fallback_same_category_compare"), ReasonSameCategory)
               ELSE IF a \notin allowed_categories \/ b \notin allowed_categories
               THEN Call("metrics_top_categories", DefaultTopArgs,
                         StrV("fallback_compare_category_not_allowed"),
                         ReasonCompareNotAllowed)
               ELSE Call("compare_categories",
                         [NoArgs EXCEPT !.category_a = CStr(a), !.category_b = CStr(b)],
                         Get(tc.rationale, StrV("")), NoReason)

\* validator.py 112-148
validate_category_tool(tc, tool, args, allowed_categories) ==
    LET cat0 == args.category IN
    IF ~IsStr(cat0) \/ strip(cat0.s) = <<>>
    THEN Call("metrics_top_categories", [NoArgs EXCEPT !.top_n = IntV(15)],
              StrV("fallback_missing_category"), ReasonMissingCategory)
    ELSE LET cat == strip(cat0.s) IN
         IF cat \notin allowed_categories
         THEN Call("metrics_top_categories", [NoArgs EXCEPT !.top_n = IntV(15)],
                   StrV("fallback_category_not_allowed"), ReasonCategoryNotAllowed)
         ELSE IF tool = "sentiment_summary"
         THEN LET mr0 == Get(args.max_reviews, IntV(30))
                  max_reviews == IF ~IsInt(mr0) \/ mr0.n < 5 \/ mr0.n > 200
                                 THEN IntV(30) ELSE mr0
              IN Call(tool, [NoArgs EXCEPT !.category = CStr(cat),
                                           !.max_reviews = max_reviews],
                      Get(tc.rationale, StrV("")), NoReason)
         ELSE Call(tool, [NoArgs EXCEPT !.category = CStr(cat)],
                   Get(tc.rationale, StrV("")), NoReason)

\* validator.py 14-156; tc is the candidate mapping, allowed_categories a set
validate_tool_call(tc, allowed_categories) ==
    LET tool == Get(tc.tool, NoneV)
        args == IF tc.args.k = "missing" THEN NoArgs ELSE tc.args
    IN IF Unhashable(tool) THEN Raised
       ELSE IF ~(IsStr(tool) /\ tool.s \in ALLOWED_TOOLS) \/ args.k # "dict"
       THEN Call("general_query", [NoArgs EXCEPT !.query_type = StrV("summary_stats")],
                 StrV("fallback_invalid_tool"), ReasonInvalidTool)
       ELSE IF tool.s = "general_query"
       THEN validate_general_query(tc, args, allowed_categories)
       ELSE IF tool.s = "metrics_top_categories"
       THEN validate_metrics_top_categories(tc, args)
       ELSE IF tool.s = "compare_categories"
       THEN validate_compare_categories(tc, args, allowed_categories)
       ELSE IF tool.s \in {"sentiment_summary", "rating_distribution"}
       THEN validate_category_tool(tc, tool.s, args, allowed_categories)
       ELSE Call("metrics_top_categories", DefaultTopArgs, StrV("fallback_default"),
                 ReasonDefault)


(***************************************************************************)
(* Candidate tool calls the classifier may emit                            *)
(***************************************************************************)
Alphabet == {" ", "A", "B", "C"}
Strings(n) == UNION {[1..m -> Alphabet] : m \in 0..n}

Candidate(tool, args, rationale) == [tool |-> tool, args |-> args, rationale |-> rationale]
ToolVals == {StrV(t) : t \in ALLOWED_TOOLS}
QueryTypeVals == {Missing, NoneV, ListV, IntV(1), StrV("other")} \cup {StrV(q) : q \in QueryTypes}
MetricVals == {Missing, NoneV, ListV, StrV("stars")} \cup {StrV(m) : m \in Metrics}
TopNVals == {Missing, NoneV, StrV("15"), FloatV(30), BoolV(TRUE),
             IntV(0), IntV(1), IntV(3), IntV(15), IntV(30), IntV(52), IntV(53), IntV(999)}
MaxReviewsVals == {Missing, StrV("30"), BoolV(TRUE), IntV(4), IntV(5), IntV(30),
                   IntV(200), IntV(201)}
CategoryVals(strs) == {CMissing, CNone, CList, CInt(7)} \cup {CStr(x) : x \in strs}

\* every shape of candidate over the category strings strs and rationales rs
CandidatesOver(strs, rs) ==
    LET cats == CategoryVals(strs) IN
       {Candidate(t, NoArgs, r) :
            t \in {Missing, NoneV, ListV, IntV(1), StrV("delete_all")}, r \in rs}
  \cup {Candidate(t, NotADict, r) : t \in ToolVals, r \in rs}
  \cup {Candidate(StrV("general_query"),
                  [NoArgs EXCEPT !.query_type = q, !.category = c], r) :
            q \in QueryTypeVals, c \in cats, r \in rs}
  \cup {Candidate(StrV("metrics_top_categories"),
                  [NoArgs EXCEPT !.top_n = n, !.metric = m], r) :
            n \in TopNVals, m \in MetricVals, r \in rs}
  \cup {Candidate(StrV("compare_categories"),
                  [NoArgs EXCEPT !.category_a = a, !.category_b = b], r) :
            a \in cats, b \in cats, r \in rs}
  \cup {Candidate(StrV("rating_distribution"), [NoArgs EXCEPT !.category = c], r) :
            c \in cats, r \in rs}
  \cup {Candidate(StrV("sentiment_summary"),
                  [NoArgs EXCEPT !.category = c, !.max_reviews = x], r) :
            c \in cats, x \in MaxReviewsVals, r \in rs}

\* the rationales of the validator-only runs: absent, a debug note, or a text
\* that happens to be the sentence the validator uses as a fallback_reason
Rationales == {Missing, StrV("because"), StrV(ReasonCategoryInfo)}
\* the candidates of the validator-only runs, over category strings up to length n
Candidates(n) == CandidatesOver(Strings(n), Rationales)


(***************************************************************************)
(* Classifier boundary: route_tool                                         *)
(***************************************************************************)
\* what the model call does: raise (network, timeout, quota), return text that
\* is not JSON, or return JSON of some shape holding the candidate tc
ClassifierResponse(kind, tc) == [kind |-> kind, tc |-> tc]
\* router.py 95-116: returns [raised, value]
route_tool(resp) ==
    IF resp.kind \in {"api_error", "not_json"}
    THEN [raised |-> TRUE, value |-> resp.tc]
    ELSE IF resp.kind \in {"dict", "list_of_dict"}
              /\ resp.tc.tool.k # "missing" /\ resp.tc.args.k # "missing"
    THEN [raised |-> FALSE, value |-> resp.tc]
    ELSE [raised |-> TRUE, value |-> resp.tc]

\* Analytics_Chat.py 366-368: the candidate substituted when route_tool raises
FallbackAnalyticsChat ==
    Candidate(StrV("general_query"), [NoArgs EXCEPT !.query_type = StrV("summary_stats")],
              StrV("error"))
\* streamlit_app.py 503-504
FallbackStreamlitApp ==
    Candidate(StrV("metrics_top_categories"), [NoArgs EXCEPT !.top_n = IntV(10)],
              StrV("router_error"))

(***************************************************************************)
(* Executor: run_tool over the metrics frame of the visible rows           *)
(***************************************************************************)
Min(a, b) == IF a < b THEN a ELSE b
Max(a, b) == IF a > b THEN a ELSE b

\* an exception leaving run_tool
RunRaised(error) == [kind |-> "raised", error |-> error, rows |-> 0]

\* execute.py 11-86; cats are the categories of category_metrics(visible_df).
\* args["k"] raises KeyError for an absent key; DataFrame.head(n) is the
\* positional slice iloc[:n], which raises TypeError for a bool bound.
run_tool(cats, tool, args) ==
    IF tool = "general_query" THEN
        LET query_type == Get(args.query_type, StrV("summary_stats")).s IN
        IF query_type = "count_categories"
        THEN [kind |-> "count_categories", error |-> "", rows |-> Cardinality(cats)]
        ELSE IF query_type = "list_categories"
        THEN [kind |-> "list_categories", error |-> "", rows |-> Cardinality(cats)]
        ELSE IF query_type = "category_info" /\ IsStr(args.category) /\ args.category.s # <<>>
        THEN IF args.category.s \in cats
             THEN [kind |-> "category_info", error |-> "", rows |-> 1]
             ELSE [kind |-> "error", error |-> "not found", rows |-> 0]
        ELSE [kind |-> "summary_stats", error |-> "", rows |-> Cardinality(cats)]
    ELSE IF tool = "metrics_top_categories"
    THEN IF args.top_n.k = "missing" THEN RunRaised("KeyError")
         ELSE IF args.top_n.k = "bool" THEN RunRaised("TypeError")
         ELSE [kind |-> "metrics", error |-> "",
               rows |-> Min(args.top_n.n, Cardinality(cats))]
    ELSE IF tool = "rating_distribution"
    THEN IF args.category.k = "missing" THEN RunRaised("KeyError")
         ELSE [kind |-> "rating_distribution", error |-> "",
               rows |-> IF args.category.s \in cats THEN 1 ELSE 0]
    ELSE IF tool = "sentiment_summary"
    THEN IF args.category.k = "missing" \/ args.max_reviews.k = "missing"
         THEN RunRaised("KeyError")
         ELSE [kind |-> "sentiment", error |-> "", rows |-> 1]
    ELSE IF tool = "compare_categories"
    THEN IF args.category_a.k = "missing" \/ args.category_b.k = "missing"
         THEN RunRaised("KeyError")
         ELSE IF args.category_a.s \in cats /\ args.category_b.s \in cats
         THEN [kind |-> "compare", error |-> "", rows |-> 2]
         ELSE [kind |-> "error", error |-> "one_or_both_categories_not_found", rows |-> 0]
    ELSE [kind |-> "error", error |-> "unknown_tool", rows |-> 0]

(***************************************************************************)
(* Response stage                                                          *)
(***************************************************************************)
\* an assistant text: which template produced it and, for the "Updated view"
\* template, the changes it names
Text(kind, changes) == [kind |-> kind, changes |-> changes]
Sorry == Text("sorry", {})
\* what the response model call does
WriterOutcomes == {"text", "api_error"}

\* response_writer.py 29-61: returns [raised, text]
write_response(llm, tool_name, tool_result) ==
    IF llm = "api_error" THEN [raised |-> TRUE, text |-> Sorry]
    ELSE IF llm = "empty" THEN [raised |-> FALSE, text |-> Text("no_response", {})]
    ELSE [raised |-> FALSE, text |-> Text("narrative", {})]

\* Analytics_Chat.py 416-431: fixed texts for the plot-updating tools
ux_override(tool, text) ==
    IF tool = "rating_distribution" THEN Text("updated_rating_distribution", {})
    ELSE IF tool = "metrics_top_categories" THEN Text("updated_top", {})
    ELSE IF tool = "compare_categories" THEN Text("compared", {})
    ELSE text

\* Analytics_Chat.py 38-83
apply_state_aware_response(tool, args, prev_state, assistant_text) ==
    IF tool = "compare_categories"
    THEN IF prev_state.compare_pair = <<args.category_a.s, args.category_b.s>>
         THEN Text("still_comparing", {})
         ELSE assistant_text
    ELSE IF tool = "metrics_top_categories"
    THEN LET prev_metric == prev_state.top_metric
             prev_top_n == prev_state.top_n
             new_metric == IF args.metric.k = "missing" THEN prev_metric ELSE args.metric.s
             new_top_n == IF args.top_n.k = "missing" THEN prev_top_n ELSE args.top_n.n
             changes == (IF new_metric # prev_metric THEN {"metric"} ELSE {})
                        \cup (IF new_top_n # prev_top_n THEN {"top_n"} ELSE {})
         IN IF changes # {} THEN Text("updated_view", changes)
            ELSE Text("already_up_to_date", {})
    ELSE IF tool = "rating_distribution"
    THEN IF prev_state.rating_dist_category = args.category.s
         THEN Text("already_showing", {})
         ELSE assistant_text
    ELSE assistant_text

(***************************************************************************)
(* Grounding: the evidence statements appended to the narrative            *)
(***************************************************************************)
\* more Python values: a float with a fractional part, and inf / nan
FractionV  == [k |-> "fraction",  s |-> "", n |-> 0]
NonFiniteV == [k |-> "nonfinite", s |-> "", n |-> 0]
\* None, as _coerce_int returns it
NoCount == [none |-> TRUE, n |-> 0]
Count(n) == [none |-> FALSE, n |-> n]

\* response_writer.py 72-81: bool is rejected before int; a float passes when
\* finite and integral (FloatV holds the integral floats)
coerce_int(value) ==
    IF value.k = "bool" THEN NoCount
    ELSE IF value.k = "int" THEN Count(value.n)
    ELSE IF value.k = "float" THEN Count(value.n)
    ELSE NoCount

\* an evidence statement: its template and the numbers it prints
Statement(kind, numbers) == [kind |-> kind, numbers |-> numbers]

\* the fields add_grounding reads of a tool result; kind is "missing" for an
\* absent key, "other" for a value of another type than the one tested for
NoGroundingResult ==
    [is_dict |-> TRUE,
     metrics |-> [kind |-> "missing", len |-> 0, top_is_dict |-> FALSE,
                  review_count |-> Missing],
     sorted_by |-> Missing,
     rating_distribution |-> [kind |-> "missing", values |-> <<>>],
     category |-> CMissing,
     sentiment |-> [kind |-> "missing", review_count_analyzed |-> Missing,
                    top_reasons |-> [kind |-> "missing", len |-> 0, first_is_pair |-> FALSE,
                                     reason |-> CMissing, count |-> Missing]],
     total_reviews |-> Missing,
     total_categories |-> Missing]

RECURSIVE SumCounts(_)
\* response_writer.py 113-117: the values that coerce, added up
SumCounts(values) ==
    IF values = <<>> THEN 0
    ELSE (IF coerce_int(values[1]).none THEN 0 ELSE coerce_int(values[1]).n)
         + SumCounts(Tail(values))

SortedByLabels == {"review_count", "avg_rating", "nps"}

\* response_writer.py 64-161: returns [raised, additions], additions being the
\* statements that follow the narrative (additions[:2])
add_grounding(tool, result) ==
    LET Returns(additions) == [raised |-> FALSE, additions |-> SubSeq(additions, 1, Min(2, Len(additions)))]
    IN
    IF ~result.is_dict THEN Returns(<<>>)
    ELSE IF tool = "metrics_top_categories" THEN
        LET metrics == result.metrics IN
        IF metrics.kind = "list" /\ metrics.len > 0
        THEN IF Unhashable(result.sorted_by)
             THEN [raised |-> TRUE, additions |-> <<>>]
             ELSE
             LET labelled == IsStr(result.sorted_by) /\ result.sorted_by.s \in SortedByLabels
                 base == Statement(IF labelled THEN "ranking_sorted_by" ELSE "ranking",
                                   <<metrics.len>>)
                 count == coerce_int(IF metrics.top_is_dict THEN metrics.review_count
                                     ELSE NoneV)
             IN Returns(<<base>> \o (IF count.none THEN <<>>
                                     ELSE <<Statement("top_category", <<count.n>>)>>))
        ELSE Returns(<<>>)
    ELSE IF tool = "rating_distribution" THEN
        LET dist == result.rating_distribution
            total == SumCounts(dist.values)
        IN IF dist.kind = "dict" /\ dist.values # <<>> /\ total > 0
           THEN Returns(<<Statement(IF IsStr(result.category) /\ strip(result.category.s) # <<>>
                                    THEN "distribution_for_category"
                                    ELSE "distribution", <<total>>)>>)
           ELSE Returns(<<>>)
    ELSE IF tool = "sentiment_summary" THEN
        LET sent == result.sentiment
            analyzed == coerce_int(sent.review_count_analyzed)
            reasons == sent.top_reasons
            reason_count == coerce_int(reasons.count)
        IN IF sent.kind = "dict" /\ ~analyzed.none
           THEN Returns(<<Statement("insights", <<analyzed.n>>)>>
                        \o (IF /\ reasons.kind = "list" /\ reasons.len > 0
                               /\ reasons.first_is_pair
                               /\ IsStr(reasons.reason) /\ strip(reasons.reason.s) # <<>>
                               /\ ~reason_count.none
                            THEN <<Statement("common_theme", <<reason_count.n>>)>>
                            ELSE <<>>))
           ELSE Returns(<<>>)
    ELSE IF tool = "general_query" THEN
        LET total_reviews == coerce_int(result.total_reviews)
            total_categories == coerce_int(result.total_categories)
        IN IF ~total_reviews.none /\ ~total_categories.none
           THEN Returns(<<Statement("summary", <<total_categories.n, total_reviews.n>>)>>)
           ELSE IF ~total_reviews.none
           THEN Returns(<<Statement("summary_reviews", <<total_reviews.n>>)>>)
           ELSE IF ~total_categories.none
           THEN Returns(<<Statement("summary_categories", <<total_categories.n>>)>>)
           ELSE Returns(<<>>)
    ELSE Returns(<<>>)

\* the values a count field may hold
CountVals ==
    {Missing, NoneV, IntV(0), IntV(3), BoolV(TRUE), FloatV(12), FractionV, NonFiniteV,
     StrV("3")}

\* tool results of each tool's shape and of other shapes
GroundingResults(tool) ==
    LET base == NoGroundingResult IN
    {[base EXCEPT !.is_dict = FALSE]} \cup
    IF tool = "metrics_top_categories" THEN
        {[base EXCEPT !.metrics = m, !.sorted_by = sb] :
            m \in {[kind |-> "other", len |-> 0, top_is_dict |-> FALSE, review_count |-> Missing],
                   [kind |-> "list", len |-> 0, top_is_dict |-> FALSE, review_count |-> Missing],
                   [kind |-> "list", len |-> 1, top_is_dict |-> FALSE, review_count |-> Missing]}
               \cup {[kind |-> "list", len |-> 2, top_is_dict |-> TRUE, review_count |-> c] :
                        c \in CountVals},
            sb \in {Missing, StrV("nps"), StrV("stars"), ListV}}
    ELSE IF tool = "rating_distribution" THEN
        {[base EXCEPT !.rating_distribution = d, !.category = c] :
            d \in {[kind |-> "other", values |-> <<>>], [kind |-> "dict", values |-> <<>>]}
               \cup {[kind |-> "dict", values |-> <<v>>] : v \in CountVals}
               \cup {[kind |-> "dict", values |-> <<IntV(3), v>>] : v \in CountVals},
            c \in {CMissing, CStr(CatA), CStr(<<" ">>), CNone}}
    ELSE IF tool = "sentiment_summary" THEN
        {[base EXCEPT !.sentiment = [kind |-> k, review_count_analyzed |-> a, top_reasons |-> r]] :
            k \in {"dict", "other"},
            a \in CountVals,
            r \in {[kind |-> "other", len |-> 0, first_is_pair |-> FALSE,
                    reason |-> CMissing, count |-> Missing],
                   [kind |-> "list", len |-> 0, first_is_pair |-> FALSE,
                    reason |-> CMissing, count |-> Missing],
                   [kind |-> "list", len |-> 1, first_is_pair |-> FALSE,
                    reason |-> CMissing, count |-> Missing]}
               \cup {[kind |-> "list", len |-> 1, first_is_pair |-> TRUE,
                      reason |-> x, count |-> c] :
                        x \in {CStr(<<"f">>), CStr(<<" ">>), CNone},
                        c \in {IntV(3), BoolV(TRUE), FractionV}}}
    ELSE IF tool = "general_query" THEN
        {[base EXCEPT !.total_reviews = tr, !.total_categories = tc] :
            tr \in CountVals, tc \in CountVals}
    ELSE {base}

(***************************************************************************)
(* Sentiment: the batched model calls and the per-review cache             *)
(***************************************************************************)
MaxReviewsLen == 2
MaxCalls == 2
\* sentiment.py 15: _ALLOWED
Sentiments == {"positive", "negative", "neutral"}
\* sentiment.py 80, 165; sentiment_cache_service.py 138, 152
max_attempts == 4
KeptReasons == 3
MostCommonReasons == 10

\* str.lower() on the letters in use
Lower(ch) == IF ch = "A" THEN "a" ELSE IF ch = "F" THEN "f" ELSE ch
lower(t) == [i \in 1..Len(t) |-> Lower(t[i])]
\* sentiment.py 38-41: sha256 of the normalised text, one digest per text
text_hash(review_text) == lower(strip(review_text))

FirstN(seq, n) == SubSeq(seq, 1, Min(n, Len(seq)))

RECURSIVE CleanFrom(_, _, _)
\* sentiment_cache_service.py 65-79: strings only, stripped, non-empty, one
\* per hash, until max_reviews are taken
CleanFrom(reviews, clean, max_reviews) ==
    IF reviews = <<>> THEN clean
    ELSE LET r == Head(reviews)
             rr == strip(r.s)
             seen == {text_hash(clean[i]) : i \in 1..Len(clean)}
         IN IF ~IsStr(r) \/ rr = <<>> \/ text_hash(rr) \in seen
            THEN CleanFrom(Tail(reviews), clean, max_reviews)
            ELSE IF Len(clean) + 1 >= max_reviews THEN Append(clean, rr)
            ELSE CleanFrom(Tail(reviews), Append(clean, rr), max_reviews)

\* collections.Counter, keys in insertion order
NoSentiments == [x \in Sentiments |-> 0]
Incr(counter, key) ==
    IF \E i \in 1..Len(counter) : counter[i].key = key
    THEN [i \in 1..Len(counter) |->
             IF counter[i].key = key THEN [counter[i] EXCEPT !.n = @ + 1] ELSE counter[i]]
    ELSE Append(counter, [key |-> key, n |-> 1])

RECURSIVE CountReasons(_, _)
\* sentiment_cache_service.py 96-98 and 143-145: reasons[rr.strip().lower()] += 1
CountReasons(counter, rs) ==
    IF rs = <<>> THEN counter
    ELSE CountReasons(IF strip(Head(rs)) # <<>>
                      THEN Incr(counter, lower(strip(Head(rs)))) ELSE counter,
                      Tail(rs))

RECURSIVE most_common(_, _)
\* Counter.most_common(n): by count descending, equal counts in insertion order
most_common(counter, n) ==
    IF n = 0 \/ counter = <<>> THEN <<>>
    ELSE LET top == CHOOSE i \in 1..Len(counter) :
                       /\ \A j \in 1..Len(counter) : counter[j].n <= counter[i].n
                       /\ \A j \in 1..(i - 1) : counter[j].n < counter[i].n
         IN <<counter[top]>>
            \o most_common(SubSeq(counter, 1, top - 1)
                           \o SubSeq(counter, top + 1, Len(counter)), n - 1)

\* sentiment_cache_service.py 12-16
get_cached_many(rows, hashes) ==
    {row \in rows : \E i \in 1..Len(hashes) : row.text_hash = hashes[i]}

RECURSIVE CountCached(_, _, _, _)
\* sentiment_cache_service.py 91-100
CountCached(cached, hashes, i, acc) ==
    IF i > Len(hashes) THEN acc
    ELSE LET hit == {row \in cached : row.text_hash = hashes[i]} IN
         IF hit # {}
         THEN LET row == CHOOSE x \in hit : TRUE
              IN CountCached(cached, hashes, i + 1,
                             [acc EXCEPT !.sentiments[row.sentiment] = @ + 1,
                                         !.reasons = CountReasons(@, row.reasons)])
         ELSE CountCached(cached, hashes, i + 1,
                          [acc EXCEPT !.uncached_items = Append(@, i)])

\* an element of the model's JSON array for one review of the batch, or none
RawObject(sentiment, reasons) ==
    [present |-> TRUE, sentiment |-> sentiment, reasons |-> reasons]
Omitted == [present |-> FALSE, sentiment |-> "", reasons |-> <<>>]
RawObjects ==
    {Omitted,
     RawObject("positive", <<CStr(<<"F">>)>>),
     RawObject("negative", <<CStr(<<" ", "f">>), CNone, CStr(<<"g">>), CStr(<<"h">>),
                             CStr(<<"i">>)>>),
     RawObject("neutral", <<CStr(<<"g">>)>>),
     RawObject("mixed", <<>>)}

\* an exception: what went wrong, and the fragments of str(e).lower() that the
\* retry classifiers look for or that tell the messages apart
Exception(cause, message) == [cause |-> cause, message |-> message]
\* last_exc = None
NoException == Exception("", {})
\* the model call's errors (google.genai's APIError puts the status code and
\* name in its message), the TimeoutError of sentiment.py 73 for a call that
\* completes after timeout_s, and json.loads' JSONDecodeError, whose message
\* ends with the position of the error: "... line 1 column 430 (char 429)"
RateLimited == Exception("rate_limit", {"429", "resource_exhausted"})
CallTimedOut == Exception("timeout", {"llm call exceeded", "timeout"})
AuthFailure == Exception("auth", {"401", "unauthenticated"})
MalformedJson(pos) == Exception("malformed_json", {"expecting value", "char", pos})

\* sentiment.py 44-55: substring tests on the lower-cased message
sentiment_is_retryable_error(e) ==
    \/ "429" \in e.message
    \/ "resource_exhausted" \in e.message
    \/ ("rate" \in e.message /\ "limit" \in e.message)
    \/ "quota" \in e.message
    \/ "503" \in e.message
    \/ "unavailable" \in e.message
    \/ "deadline" \in e.message
    \/ "timeout" \in e.message

\* no entry of out_by_idx for a review
Absent == [kept |-> FALSE, sentiment |-> "", reasons |-> <<>>]

RECURSIVE clean_reasons(_)
\* sentiment.py 159-164
clean_reasons(reasons) ==
    IF reasons = <<>> THEN <<>>
    ELSE (IF IsStr(Head(reasons)) /\ strip(Head(reasons).s) # <<>>
          THEN <<strip(Head(reasons).s)>> ELSE <<>>)
         \o clean_reasons(Tail(reasons))

\* clean_output keeping every reason the model gave
clean_output_KeepsAllReasons(obj) ==
    IF ~obj.present \/ obj.sentiment \notin Sentiments THEN Absent
    ELSE [kept |-> TRUE, sentiment |-> obj.sentiment, reasons |-> clean_reasons(obj.reasons)]

\* sentiment.py 145-165: what analyze_reviews_batch keeps of one element
clean_output(obj) ==
    IF ~obj.present \/ obj.sentiment \notin Sentiments THEN Absent
    ELSE [kept |-> TRUE, sentiment |-> obj.sentiment,
          reasons |-> FirstN(clean_reasons(obj.reasons), KeptReasons)]

RECURSIVE ProcessChunk(_, _, _, _, _)
\* sentiment_cache_service.py 116-145: acc holds the cache rows and the Counters
ProcessChunk(chunk, hashes, outputs, local_idx, acc) ==
    IF local_idx > Len(chunk) THEN acc
    ELSE LET h == hashes[chunk[local_idx]]
             o == outputs[local_idx]
             verdict == IF o.kept /\ o.sentiment \in Sentiments THEN o.sentiment
                        ELSE "neutral"
             rs == IF o.kept THEN o.reasons ELSE <<>>
             row == [text_hash |-> h, sentiment |-> verdict,
                     reasons |-> FirstN(rs, KeptReasons)]
         IN ProcessChunk(chunk, hashes, outputs, local_idx + 1,
                [rows |-> {x \in acc.rows : x.text_hash # h} \cup {row},
                 sentiments |-> [acc.sentiments EXCEPT ![verdict] = @ + 1],
                 reasons |-> CountReasons(acc.reasons, rs)])

\* the locals of a call: pc is "call" between calls, "attempt" in
\* analyze_reviews_batch's loop, "process" with its outputs in hand, "blocked"
\* in the executor's shutdown
Frame(pc_, clean, hashes, uncached_items, start, attempt, last_exc, outputs, sentiments, reasons) ==
    [pc |-> pc_, clean |-> clean, hashes |-> hashes, uncached_items |-> uncached_items,
     start |-> start, attempt |-> attempt, last_exc |-> last_exc, outputs |-> outputs,
     sentiments |-> sentiments, reasons |-> reasons]
NoAnalysis == Frame("off", <<>>, <<>>, <<>>, 0, 0, NoException, <<>>, NoSentiments, <<>>)

\* sentiment_cache_service.py 106: uncached_items[start : start + batch_size]
Chunk(frame, batch_size) ==
    SubSeq(frame.uncached_items, frame.start + 1,
           Min(frame.start + batch_size, Len(frame.uncached_items)))

\* sentiment_cache_service.py 149-155
AnalysisResult(frame) ==
    [review_count_analyzed |-> frame.sentiments["positive"] + frame.sentiments["negative"]
                               + frame.sentiments["neutral"],
     sentiment_distribution |-> frame.sentiments,
     top_reasons |-> most_common(frame.reasons, MostCommonReasons),
     new_cache_rows |-> 0,
     cache_hits |-> Len(frame.clean) - Len(frame.uncached_items)]

\* the reviews, max_reviews and batch_size of the calls
ReviewVals == {CNone, CStr(<<" ">>), CStr(<<"a">>), CStr(<<"A">>), CStr(<<"b">>)}
TakeLimits == {1, 2}
BatchSizes == {1, 2}
\* how an attempt ends when it raises
ModelCallErrors ==
    {RateLimited, CallTimedOut, AuthFailure, MalformedJson("0"), MalformedJson("429")}

(***************************************************************************)
(* Session view state                                                      *)
(***************************************************************************)
\* None for compare_pair and for plot_state["rating_dist_category"]; validated
\* categories are non-blank, so the empty sequence is free to stand for None
NoPair == <<>>
NoCategory == <<>>

View(tn, tm, cp, rdc) ==
    [top_n |-> tn, top_metric |-> tm, compare_pair |-> cp, rating_dist_category |-> rdc]

\* Analytics_Chat.py 387-388
PlotRatingDistribution(view, call) ==
    [view EXCEPT !.rating_dist_category = call.args.category.s]

\* Analytics_Chat.py 390-399
PlotTopCategories(view, call) ==
    LET tn == call.args.top_n
        metric == call.args.metric
    IN [view EXCEPT
          !.top_n = IF IsInt(tn) THEN Max(5, Min(50, tn.n)) ELSE @,
          !.top_metric = IF IsStr(metric) /\ metric.s \in Metrics THEN metric.s ELSE @,
          !.compare_pair = NoPair]

\* PlotCompare leaving the histogram's category as it was
PlotCompare_KeepsHistogram(view, call) ==
    [view EXCEPT !.compare_pair = <<call.args.category_a.s, call.args.category_b.s>>]

\* Analytics_Chat.py 401-405
PlotCompare(view, call) ==
    [view EXCEPT !.compare_pair = <<call.args.category_a.s, call.args.category_b.s>>,
                 !.rating_dist_category = call.args.category_a.s]

\* PlotInteractions with the histogram following the second compared category
PlotInteractions_HistogramOnSecond(view, call) ==
    IF call.tool = "rating_distribution" THEN PlotRatingDistribution(view, call)
    ELSE IF call.tool = "metrics_top_categories" THEN PlotTopCategories(view, call)
    ELSE IF call.tool = "compare_categories"
    THEN [view EXCEPT !.compare_pair = <<call.args.category_a.s, call.args.category_b.s>>,
                      !.rating_dist_category = call.args.category_b.s]
    ELSE view

\* PlotInteractions with sentiment_summary treated as a histogram request
PlotInteractions_SentimentMovesHistogram(view, call) ==
    IF call.tool \in {"rating_distribution", "sentiment_summary"}
    THEN PlotRatingDistribution(view, call)
    ELSE IF call.tool = "metrics_top_categories" THEN PlotTopCategories(view, call)
    ELSE IF call.tool = "compare_categories" THEN PlotCompare(view, call)
    ELSE view

\* PlotInteractions storing the validated top_n without the clamp to [5,50]
PlotInteractions_NoClamp(view, call) ==
    IF call.tool = "rating_distribution" THEN PlotRatingDistribution(view, call)
    ELSE IF call.tool = "metrics_top_categories"
    THEN [PlotTopCategories(view, call) EXCEPT
             !.top_n = IF IsInt(call.args.top_n) THEN call.args.top_n.n ELSE @]
    ELSE IF call.tool = "compare_categories" THEN PlotCompare(view, call)
    ELSE view

\* Analytics_Chat.py 386-405: "Plot interactions"
PlotInteractions(view, call) ==
    IF call.tool = "rating_distribution" THEN PlotRatingDistribution(view, call)
    ELSE IF call.tool = "metrics_top_categories" THEN PlotTopCategories(view, call)
    ELSE IF call.tool = "compare_categories" THEN PlotCompare(view, call)
    ELSE view

\* RenderComparePair dropping the pair in every run
RenderComparePair_AlwaysDrops(pair, cats) == NoPair

\* RenderComparePair keeping the stored pair whatever the metrics frame holds
RenderComparePair_NeverDrops(pair, cats) == pair

\* Analytics_Chat.py 255-264: the chart step drops a pair with a vanished category
RenderComparePair(pair, cats) ==
    IF pair # NoPair /\ (pair[1] \notin cats \/ pair[2] \notin cats) THEN NoPair ELSE pair

\* VisibleCategories applying the access filter to every role
VisibleCategories_AdminFiltered(user_role, allowed) == DatasetCategories \cap allowed

\* Analytics_Chat.py 206-223 / streamlit_app.py 351-370: categories of visible_df
VisibleCategories(user_role, allowed) ==
    IF user_role = "admin" THEN DatasetCategories ELSE DatasetCategories \cap allowed

\* Analytics_Chat.py 225-235: categories of the metrics frame with >= 10 reviews
ChatCategories(visible) == {c \in visible : ReviewCount(c) >= MinReviews}


(***************************************************************************)
(* Inputs of a chat session                                                *)
(***************************************************************************)
NoCandidate == Candidate(Missing, NoArgs, Missing)
NoPrevState == View(0, "", NoPair, NoCategory)
NoResult == [kind |-> "", error |-> "", rows |-> 0]
NoTraceRow == [user_query |-> 0, router |-> NoCandidate, tool |-> NoCall,
               assistant_text |-> [kind |-> "", changes |-> {}]]

\* the candidates of the session runs: one or more per branch of the validator
RouterCandidates ==
    LET r == StrV("because") IN
       {Candidate(StrV("delete_all"), NoArgs, r), Candidate(ListV, NoArgs, r)}
  \cup {Candidate(StrV("general_query"), [NoArgs EXCEPT !.query_type = q], r) :
            q \in {StrV("summary_stats"), ListV}}
  \cup {Candidate(StrV("general_query"),
                  [NoArgs EXCEPT !.query_type = StrV("category_info"), !.category = c], r) :
            c \in {CStr(CatA), CStr(CatC)}}
  \cup {Candidate(StrV("metrics_top_categories"),
                  [NoArgs EXCEPT !.top_n = n, !.metric = m], r) :
            n \in {Missing, IntV(3), IntV(15), IntV(52), BoolV(TRUE)},
            m \in {Missing, StrV("nps")}}
  \cup {Candidate(StrV("compare_categories"),
                  [NoArgs EXCEPT !.category_a = CStr(ab[1]), !.category_b = CStr(ab[2])], r) :
            ab \in {<<CatA, CatB>>, <<CatB, CatA>>, <<CatA, CatA>>, <<CatC, CatC>>,
                    <<CatA, CatC>>, <<<<" ", "B">>, CatA>>}}
  \cup {Candidate(StrV("compare_categories"), [NoArgs EXCEPT !.category_b = CStr(CatA)], r)}
  \cup {Candidate(StrV("rating_distribution"), [NoArgs EXCEPT !.category = c], r) :
            c \in {CStr(CatA), CStr(CatB), CStr(CatC), CMissing}}
  \cup {Candidate(StrV("sentiment_summary"),
                  [NoArgs EXCEPT !.category = CStr(cx[1]), !.max_reviews = cx[2]], r) :
            cx \in {<<CatA, Missing>>, <<CatA, IntV(201)>>, <<CatC, Missing>>}}

\* what the classifier's model call may do in a turn
ClassifierResponses ==
       {ClassifierResponse(k, NoCandidate) : k \in {"api_error", "not_json", "json_scalar"}}
  \cup {ClassifierResponse("dict", Candidate(Missing, NoArgs, StrV("because"))),
        ClassifierResponse("dict", Candidate(StrV("general_query"),
                                             [NoArgs EXCEPT !.k = "missing"], Missing)),
        ClassifierResponse("list_of_dict",
                           Candidate(StrV("general_query"),
                                     [NoArgs EXCEPT !.query_type = StrV("count_categories")],
                                     Missing))}
  \cup {ClassifierResponse("dict", tc) : tc \in RouterCandidates}

\* the category sets the admin assigns
AdminChoices == {{}, {CatA}, {CatA, CatB}, DatasetCategories}

\* what the trace store does on log_trace's commit
TraceOutcomes == {"ok", "db_error"}

\* trace_service.py 46-54: the message_traces row of a turn; user_query is the
\* ordinal of the turn's user message
TraceRow(user_query, ro, call, text) ==
    [user_query |-> user_query, router |-> ro, tool |-> call, assistant_text |-> text]

(***************************************************************************)
(* Category access: the admin's write and the cached filter that reads it  *)
(***************************************************************************)
\* what the database does with the transaction of set_user_categories: commit
\* it, or fail the flush (a constraint violation) and roll it back
CommitOutcomes == {"ok", "integrity_error"}

\* CommittedAccess with the DELETE committed on its own, ahead of the rest
CommittedAccess_DeleteCommittedFirst(rows, version, category_ids, commit) ==
    IF commit = "ok"
    THEN [rows |-> category_ids, access_version |-> version + 1]
    ELSE [rows |-> {}, access_version |-> version]

\* access_control.py 10-28: the committed rows and version after the call.  The
\* DELETE (11-13), the INSERTs (16-22) and the UPDATE (24-26) run in the
\* session's one transaction, which line 28 commits; a failure rolls it back.
CommittedAccess(rows, version, category_ids, commit) ==
    LET cleared == {}
        added == cleared \cup category_ids
        bumped == version + 1
    IN IF commit = "ok"
       THEN [rows |-> added, access_version |-> bumped]
       ELSE [rows |-> rows, access_version |-> version]

\* Analytics_Chat.py 102-109: the body of _filter_df_by_categories, which does
\* not use access_version
filter_df_by_categories(allowed_key, version_key) == DatasetCategories \cap allowed_key

\* a cache entry: the arguments of a call and the frame it returned
CacheEntry(allowed_key, version_key, value) ==
    [allowed_categories |-> allowed_key, access_version |-> version_key, value |-> value]

\* cache_lookup matching on access_version alone
cache_lookup_IgnoresAllowed(entries, allowed_key, version_key) ==
    {e \in entries : e.access_version = version_key}

\* st.cache_data on _filter_df_by_categories (Analytics_Chat.py 102): the entries
\* stored under the same arguments
cache_lookup(entries, allowed_key, version_key) ==
    {e \in entries : e.allowed_categories = allowed_key /\ e.access_version = version_key}

(***************************************************************************)
(* State                                                                   *)
(***************************************************************************)
VARIABLES
    app,                  \* the script the session runs
    role,                 \* st.session_state.user["role"]
    db_allowed,           \* user_category_access rows of the session user (names)
    access_version,       \* users.access_version of the session user
    top_n,                \* st.session_state.top_n
    top_metric,           \* st.session_state.top_metric
    compare_pair,         \* st.session_state.compare_pair
    rating_dist_category, \* st.session_state.plot_state["rating_dist_category"]
    chat_messages,        \* st.session_state.chat_messages (roles)
    pc,                   \* position of the session's script run
    user_text,            \* whether this run carries a chat input
    visible_categories,   \* categories of visible_df in this run
    allowed_categories,   \* allowed_categories of this run
    chart_pair,           \* a, b of this run's compare chart step (Analytics_Chat.py 257)
    route_failed,         \* route_tool raised in this turn
    router_out,           \* router_out of this turn
    validated,            \* validated of this turn
    prev_state,           \* prev_state of this turn
    tool_result,          \* tool_result of this turn
    assistant_text,       \* assistant_text of this turn
    outcome,              \* how the turn's handler ended
    trace_row,            \* the row log_trace committed in this turn
    message_traces,       \* message_traces rows (the user_query of each)
    run_allowed,          \* allowed of this run (get_allowed_categories' result)
    filter_cache,         \* st.cache_data entries of _filter_df_by_categories
    metrics_df,           \* df handed to category_metrics
    metrics_out,          \* the frame category_metrics returned
    grounding_tool,       \* tool handed to add_grounding
    grounding_result,     \* tool_result handed to add_grounding
    grounded,             \* what add_grounding did
    analyze_args,         \* arguments of analyze_reviews_with_cache
    review_sentiment_cache, \* rows of the review_sentiment_cache table
    analysis,             \* position and locals of the call under way
    returned,             \* what the calls made so far returned
    cache_table,          \* committed rows of review_sentiment_cache, with their ids
    next_id,              \* next value of the table's id sequence
    transactions,         \* the open transaction of each session
    browsers,             \* per browser session: user, conversation_id, script position
    conversations,        \* rows of the conversations table
    traces                \* rows of the message_traces table (conversation_id, user_id)

cache == <<run_allowed, filter_cache>>
session ==<<top_n, top_metric, compare_pair, rating_dist_category, chat_messages>>
locals == <<route_failed, router_out, validated, prev_state, tool_result, assistant_text,
            outcome, trace_row>>
run == <<pc, user_text, visible_categories, allowed_categories, chart_pair>>
database == <<db_allowed, access_version>>
chat == <<app, role, database, message_traces, session, run, locals, cache>>
\* the state of the functions that are run on their own
metrics == <<metrics_df, metrics_out>>
grounding == <<grounding_tool, grounding_result, grounded>>
sentiment == <<analyze_args, review_sentiment_cache, analysis, returned>>
upserting == <<cache_table, next_id, transactions>>
tracing == <<browsers, conversations, traces>>
aside == <<metrics, grounding, sentiment, upserting, tracing>>
vars == <<chat, aside>>

CurrentView == View(top_n, top_metric, compare_pair, rating_dist_category)
Turns == Cardinality({i \in 1..Len(chat_messages) : chat_messages[i] = "user"})

\* no call of category_metrics is under way
NotComputed == <<[category |-> <<>>]>>
MetricsIdle == metrics_df = <<>> /\ metrics_out = NotComputed
\* no call of add_grounding is under way
NotGrounded == [raised |-> FALSE, additions |-> <<[kind |-> "", numbers |-> <<>>]>>]
GroundingIdle ==
    grounding_tool = "" /\ grounding_result = NoGroundingResult /\ grounded = NotGrounded
\* no call of analyze_reviews_with_cache is under way
SentimentIdle ==
    /\ analyze_args = [reviews |-> <<>>, max_reviews |-> 1, batch_size |-> 1]
    /\ review_sentiment_cache = {}
    /\ analysis = NoAnalysis
    /\ returned = <<>>
\* no session is writing to the cache
UpsertIdle == cache_table = {} /\ next_id = 1 /\ transactions = <<>>
\* no browser session is open
TracingIdle == browsers = <<>> /\ conversations = {} /\ traces = <<>>
AsideIdle == MetricsIdle /\ GroundingIdle /\ SentimentIdle /\ UpsertIdle /\ TracingIdle

\* Analytics_Chat.py 117-140: session-state defaults, before the first run
SessionDefaults ==
    /\ db_allowed = {}
    /\ access_version = 0
    /\ top_n = 15
    /\ top_metric = "review_count"
    /\ compare_pair = NoPair
    /\ rating_dist_category = NoCategory
    /\ chat_messages = <<>>
    /\ pc = "run"
    /\ user_text = FALSE
    /\ visible_categories = {}
    /\ allowed_categories = {}
    /\ chart_pair = NoPair
    /\ route_failed = FALSE
    /\ router_out = NoCandidate
    /\ validated = NoCall
    /\ prev_state = NoPrevState
    /\ tool_result = NoResult
    /\ assistant_text = Sorry
    /\ outcome = ""
    /\ trace_row = NoTraceRow
    /\ message_traces = <<>>
    /\ run_allowed = {}
    /\ filter_cache = {}

\* Analytics_Chat.py 117-140: session-state defaults; the first run is about to start
Init ==
    /\ AsideIdle
    /\ app \in {"Analytics_Chat", "streamlit_app"}
    /\ role \in {"admin", "analyst"}
    /\ SessionDefaults

\* a session that stays at its defaults while a function is run on its own
InitSession ==
    /\ app = "Analytics_Chat"
    /\ role = "admin"
    /\ SessionDefaults


(***************************************************************************)
(* The chat turn handlers, as functions of the session and the turn inputs *)
(***************************************************************************)
TurnResult(msgs, view, failed, ro, call, prev, result, text, row, how) ==
    [chat_messages |-> msgs, view |-> view, route_failed |-> failed, router_out |-> ro,
     validated |-> call, prev_state |-> prev, tool_result |-> result,
     assistant_text |-> text, trace_row |-> row, outcome |-> how]

\* Analytics_Chat.py 336-452.  An exception leaving a stage ends the script run
\* where it is: what was assigned before stays, nothing after happens.
AnalyticsChatTurn(view, msgs, visible, allowed, resp, llm, trace) ==
    LET msgs1 == Append(msgs, "user")
        user_query == Cardinality({i \in 1..Len(msgs1) : msgs1[i] = "user"})
        routed == route_tool(resp)
        ro == IF routed.raised THEN FallbackAnalyticsChat ELSE routed.value
        call == validate_tool_call(ro, allowed)
    IN IF call.raised
       THEN TurnResult(msgs1, view, routed.raised, ro, NoCall, NoPrevState, NoResult,
                       Sorry, NoTraceRow, "validate_raised")
       ELSE
       LET prev == view
           result == run_tool(visible, call.tool, call.args)
       IN IF result.kind = "raised"
          THEN TurnResult(msgs1, view, routed.raised, ro, call, prev, result,
                          Sorry, NoTraceRow, "run_raised")
          ELSE
          LET view1 == PlotInteractions(view, call)
              written == write_response(llm, call.tool, result)
          IN IF written.raised
             THEN TurnResult(msgs1, view1, routed.raised, ro, call, prev, result,
                             Sorry, NoTraceRow, "write_raised")
             ELSE
             LET text == apply_state_aware_response(call.tool, call.args, prev,
                                                    ux_override(call.tool, written.text))
             IN IF trace # "ok"
                THEN TurnResult(msgs1, view1, routed.raised, ro, call, prev, result,
                                text, NoTraceRow, "trace_raised")
                ELSE TurnResult(Append(msgs1, "assistant"), view1, routed.raised, ro, call,
                                prev, result, text, TraceRow(user_query, ro, call, text),
                                "ok")

\* streamlit_app.py 467-554: no view state is read or written by this script
StreamlitAppTurn(view, msgs, visible, allowed, resp, llm, trace) ==
    LET msgs1 == Append(msgs, "user")
        user_query == Cardinality({i \in 1..Len(msgs1) : msgs1[i] = "user"})
        routed == route_tool(resp)
        ro == IF routed.raised THEN FallbackStreamlitApp ELSE routed.value
        call == validate_tool_call(ro, allowed)
    IN IF call.raised
       THEN TurnResult(msgs1, view, routed.raised, ro, NoCall, NoPrevState, NoResult,
                       Sorry, NoTraceRow, "validate_raised")
       ELSE
       LET result == run_tool(visible, call.tool, call.args)
       IN IF result.kind = "raised"
          THEN TurnResult(msgs1, view, routed.raised, ro, call, NoPrevState, result,
                          Sorry, NoTraceRow, "run_raised")
          ELSE
          LET written == write_response(llm, call.tool, result)
          IN IF written.raised
             THEN TurnResult(msgs1, view, routed.raised, ro, call, NoPrevState, result,
                             Sorry, NoTraceRow, "write_raised")
             ELSE IF trace # "ok"
             THEN TurnResult(msgs1, view, routed.raised, ro, call, NoPrevState, result,
                             written.text, NoTraceRow, "trace_raised")
             ELSE TurnResult(Append(msgs1, "assistant"), view, routed.raised, ro, call,
                             NoPrevState, result, written.text,
                             TraceRow(user_query, ro, call, written.text), "ok")

(***************************************************************************)
(* Actions                                                                 *)
(***************************************************************************)
\* access_control.py 5-28, called from the admin page (1_Admin.py 214-257), which
\* offers the users of role analyst
set_user_categories ==
    /\ role = "analyst"
    /\ access_version < MaxAccessVersion
    /\ \E category_ids \in AdminChoices, commit \in CommitOutcomes :
         \E after \in {CommittedAccess(db_allowed, access_version, category_ids, commit)} :
            /\ db_allowed' = after.rows
            /\ access_version' = after.access_version
    /\ UNCHANGED <<aside, app, message_traces, cache,role, session, run, locals>>

\* the user interacts with the page (or reloads it): the script runs again
Reload ==
    /\ pc = "idle"
    /\ pc' = "run"
    /\ user_text' = FALSE
    /\ UNCHANGED <<aside, app, message_traces, cache,role, database, session, visible_categories, allowed_categories,
                   chart_pair, locals>>

\* Analytics_Chat.py 334 / streamlit_app.py 465: the user submits a chat input,
\* which the page offers when the last run got as far as the chat box
Submit ==
    /\ pc = "idle"
    /\ allowed_categories # {}
    /\ Turns < MaxTurns
    /\ pc' = "run"
    /\ user_text' = TRUE
    /\ UNCHANGED <<aside, app, message_traces, cache,role, database, session, visible_categories, allowed_categories,
                   chart_pair, locals>>

\* Analytics_Chat.py 206-334: access filter, >= 10 reviews filter, charts
RenderAnalyticsChat ==
    /\ pc = "run"
    /\ app = "Analytics_Chat"
    /\ LET visible == VisibleCategories(role, db_allowed)
           mdf == ChatCategories(visible)
       IN IF mdf = {}
          THEN /\ pc' = "idle"
               /\ visible_categories' = {}
               /\ allowed_categories' = {}
               /\ chart_pair' = NoPair
               /\ UNCHANGED compare_pair
          ELSE /\ pc' = IF user_text THEN "handler" ELSE "idle"
               /\ visible_categories' = mdf
               /\ allowed_categories' = mdf
               /\ chart_pair' = compare_pair
               /\ compare_pair' = RenderComparePair(compare_pair, mdf)
    /\ UNCHANGED <<aside, app, message_traces, cache,role, database, top_n, top_metric, rating_dist_category,
                   chat_messages, user_text, locals>>

\* streamlit_app.py 351-465: access filter, charts; no >= 10 reviews filter
RenderStreamlitApp ==
    /\ pc = "run"
    /\ app = "streamlit_app"
    /\ LET visible == VisibleCategories(role, db_allowed)
       IN IF visible = {}
          THEN /\ pc' = "idle"
               /\ visible_categories' = {}
               /\ allowed_categories' = {}
          ELSE /\ pc' = IF user_text THEN "handler" ELSE "idle"
               /\ visible_categories' = visible
               /\ allowed_categories' = visible
    /\ UNCHANGED <<aside, app, message_traces, cache,role, database, session, user_text, chart_pair, locals>>

\* the chat turn of the running script
Handler ==
    /\ pc = "handler"
    /\ \E resp \in ClassifierResponses, llm \in WriterOutcomes, trace \in TraceOutcomes :
         \E r \in {IF app = "Analytics_Chat"
                   THEN AnalyticsChatTurn(CurrentView, chat_messages, visible_categories,
                                          allowed_categories, resp, llm, trace)
                   ELSE StreamlitAppTurn(CurrentView, chat_messages, visible_categories,
                                         allowed_categories, resp, llm, trace)} :
            /\ chat_messages' = r.chat_messages
            /\ top_n' = r.view.top_n
            /\ top_metric' = r.view.top_metric
            /\ compare_pair' = r.view.compare_pair
            /\ rating_dist_category' = r.view.rating_dist_category
            /\ route_failed' = r.route_failed
            /\ router_out' = r.router_out
            /\ validated' = r.validated
            /\ prev_state' = r.prev_state
            /\ tool_result' = r.tool_result
            /\ assistant_text' = r.assistant_text
            /\ outcome' = r.outcome
            /\ trace_row' = r.trace_row
            /\ message_traces' = IF r.trace_row = NoTraceRow THEN message_traces
                                 ELSE Append(message_traces, r.trace_row.user_query)
    /\ pc' = "turn_done"
    /\ UNCHANGED <<aside, app, cache,role, database, user_text, visible_categories, allowed_categories,
                   chart_pair>>

\* Analytics_Chat.py 361-365 / streamlit_app.py 498-502, router.py 95-104: the
\* classifier's model call never returns.  route_tool calls generate_content
\* directly, with no timeout around it, so the script run stays inside the call
\* after the user message was appended.
RouteToolNeverReturns ==
    /\ pc = "handler"
    /\ pc' = "route_tool"
    /\ chat_messages' = Append(chat_messages, "user")
    /\ UNCHANGED <<aside, app, message_traces, cache, role, database, top_n, top_metric,
                   compare_pair, rating_dist_category, user_text, visible_categories,
                   allowed_categories, chart_pair, locals>>

\* Analytics_Chat.py 454-459: st.rerun() after a completed turn; a run that an
\* exception ended, and streamlit_app.py's run, stop here with the page shown
EndTurn ==
    /\ pc = "turn_done"
    /\ pc' = IF app = "Analytics_Chat" /\ outcome = "ok" THEN "run" ELSE "idle"
    /\ user_text' = FALSE
    /\ route_failed' = FALSE
    /\ router_out' = NoCandidate
    /\ validated' = NoCall
    /\ prev_state' = NoPrevState
    /\ tool_result' = NoResult
    /\ assistant_text' = Sorry
    /\ outcome' = ""
    /\ trace_row' = NoTraceRow
    /\ UNCHANGED <<aside, app, message_traces, cache,role, database, session, visible_categories, allowed_categories,
                   chart_pair>>

Next ==
    \/ set_user_categories
    \/ Reload
    \/ Submit
    \/ RenderAnalyticsChat
    \/ RenderStreamlitApp
    \/ Handler
    \/ RouteToolNeverReturns
    \/ EndTurn

Spec == Init /\ [][Next]_vars

(***************************************************************************)
(* The session with its login gate: one browser session, several logins    *)
(***************************************************************************)
\* Analytics_Chat.py 194-196 / streamlit_app.py 116-118: the sidebar's Logout
\* button; the rerun stops at the login gate
Logout ==
    /\ pc = "idle"
    /\ role # "none"
    /\ role' = "none"
    /\ pc' = "login"
    /\ user_text' = FALSE
    /\ UNCHANGED <<aside, app, message_traces, cache,database, session, visible_categories, allowed_categories,
                   chart_pair, locals>>

\* Analytics_Chat.py 143-175 / streamlit_app.py 80-103: the login form accepts an
\* account (the admin's or the analyst's) and reruns the script
Login ==
    /\ pc = "login"
    /\ role' \in {"admin", "analyst"}
    /\ pc' = "run"
    /\ user_text' = FALSE
    /\ UNCHANGED <<aside, app, message_traces, cache,database, session, visible_categories, allowed_categories,
                   chart_pair, locals>>

NextLogin ==
    \/ Next
    \/ Logout
    \/ Login

SpecLogin == Init /\ [][NextLogin]_vars

(***************************************************************************)
(* The analyst's run up to its filtered frame, read by read, beside the     *)
(* admin's commits                                                         *)
(***************************************************************************)
InitCache == Init /\ role = "analyst"

\* Analytics_Chat.py 214 / streamlit_app.py 360: get_allowed_categories
ReadAllowed ==
    /\ pc = "run"
    /\ role = "analyst"
    /\ run_allowed' = db_allowed
    /\ pc' = "read_version"
    /\ UNCHANGED <<aside, app, message_traces, role, database, session, user_text, visible_categories,
                   allowed_categories, chart_pair, locals, filter_cache>>

\* Analytics_Chat.py 216-238 / streamlit_app.py 362-376, 459: the run reads
\* access_version, calls the cached filter and computes its category list
FilterCached ==
    /\ pc = "read_version"
    /\ LET hits == cache_lookup(filter_cache, run_allowed, access_version)
           computed == CacheEntry(run_allowed, access_version,
                                  filter_df_by_categories(run_allowed, access_version))
       IN \E e \in (IF hits # {} THEN hits ELSE {computed}) :
            /\ filter_cache' = filter_cache \cup {e}
            /\ LET shown == IF app = "Analytics_Chat" THEN ChatCategories(e.value)
                            ELSE e.value
               IN /\ visible_categories' = shown
                  /\ allowed_categories' = shown
    /\ pc' = "idle"
    /\ UNCHANGED <<aside, app, message_traces, role, database, session, user_text, chart_pair, locals, run_allowed>>

NextCache ==
    \/ set_user_categories
    \/ Reload
    \/ ReadAllowed
    \/ FilterCached

SpecCache == InitCache /\ [][NextCache]_vars


(***************************************************************************)
(* category_metrics on its own: every small frame of (category, rating)    *)
(***************************************************************************)
MaxRows == 3
\* a null rating (NaN)
NullRating == 0
RatingVals == {NullRating, 2, 3, 4}
MetricsCategories == {CatA, CatB}
\* a float: NaN, or the exact quotient num / den
NaN == [nan |-> TRUE, num |-> 0, den |-> 1]
Quotient(num, den) == [nan |-> FALSE, num |-> num, den |-> den]

\* compute_nps counting a rating of 4 as passive
compute_nps_PromotersAboveFour(ratings) ==
    LET r == {i \in 1..Len(ratings) : ratings[i] # NullRating}
        promoters == Cardinality({i \in r : ratings[i] > 4})
        detractors == Cardinality({i \in r : ratings[i] <= 2})
    IN IF r = {} THEN NaN ELSE Quotient((promoters - detractors) * 100, Cardinality(r))

\* metrics.py 5-20: r is the series without its nulls, kept as positions
compute_nps(ratings) ==
    LET r == {i \in 1..Len(ratings) : ratings[i] # NullRating}
        promoters == Cardinality({i \in r : ratings[i] >= 4})
        detractors == Cardinality({i \in r : ratings[i] <= 2})
        total == Cardinality(r)
    IN IF total = 0 THEN NaN
       ELSE Quotient((promoters * 100) - (detractors * 100), total)

RECURSIVE SumRatings(_)
SumRatings(ratings) ==
    IF ratings = <<>> THEN 0 ELSE ratings[1] + SumRatings(Tail(ratings))

\* the ratings of one group of df.groupby("category"), in row order
GroupRatings(df, c) ==
    LET Keep(row) == row.category = c
    IN [i \in 1..Len(SelectSeq(df, Keep)) |-> SelectSeq(df, Keep)[i].rating]

\* metrics.py 33-39: the aggregates of one group; count and mean skip nulls
MetricsRow(df, c) ==
    LET ratings == GroupRatings(df, c)
        review_count == Cardinality({i \in 1..Len(ratings) : ratings[i] # NullRating})
    IN [category |-> c,
        review_count |-> review_count,
        avg_rating |-> IF review_count = 0 THEN NaN
                       ELSE Quotient(SumRatings(ratings), review_count),
        nps |-> compute_nps(ratings)]

\* a strictly after b in sort_values(["review_count", "avg_rating"],
\* ascending=[False, False]); NaN sorts last
SortsAfter(a, b) ==
    \/ a.review_count < b.review_count
    \/ /\ a.review_count = b.review_count
       /\ \/ a.avg_rating.nan /\ ~b.avg_rating.nan
          \/ /\ ~a.avg_rating.nan /\ ~b.avg_rating.nan
             /\ a.avg_rating.num * b.avg_rating.den < b.avg_rating.num * a.avg_rating.den

\* metrics.py 23-43: the frames the call may return, as sequences of rows; rows
\* with equal sort keys may come in either order
category_metrics(df) ==
    LET rows == {MetricsRow(df, df[i].category) : i \in 1..Len(df)}
        n == Cardinality(rows)
    IN {out \in [1..n -> rows] :
           /\ \A i, j \in 1..n : i # j => out[i] # out[j]
           /\ \A i, j \in 1..n : i < j => ~SortsAfter(out[i], out[j])}

InitMetrics ==
    /\ InitSession
    /\ metrics_df \in UNION {[1..n -> [category : MetricsCategories, rating : RatingVals]] :
                                n \in 0..MaxRows}
    /\ metrics_out = NotComputed
    /\ GroundingIdle
    /\ SentimentIdle
    /\ UpsertIdle
    /\ TracingIdle

CategoryMetrics ==
    /\ metrics_out = NotComputed
    /\ metrics_out' \in category_metrics(metrics_df)
    /\ UNCHANGED <<chat, upserting, tracing, metrics_df, grounding, sentiment>>

NextMetrics == CategoryMetrics

SpecMetrics == InitMetrics /\ [][NextMetrics]_vars

(***************************************************************************)
(* add_grounding on its own: every tool against results of every shape     *)
(***************************************************************************)
InitGrounding ==
    /\ InitSession
    /\ MetricsIdle
    /\ grounding_tool \in ALLOWED_TOOLS
    /\ grounding_result \in GroundingResults(grounding_tool)
    /\ grounded = NotGrounded
    /\ SentimentIdle
    /\ UpsertIdle
    /\ TracingIdle

AddGrounding ==
    /\ grounded = NotGrounded
    /\ grounded' = add_grounding(grounding_tool, grounding_result)
    /\ UNCHANGED <<chat, upserting, tracing, metrics, sentiment, grounding_tool, grounding_result>>

NextGrounding == AddGrounding

SpecGrounding == InitGrounding /\ [][NextGrounding]_vars

(***************************************************************************)
(* analyze_reviews_with_cache: calls on one review set, starting from an   *)
(* empty cache                                                             *)
(***************************************************************************)
InitSentiment ==
    /\ InitSession
    /\ MetricsIdle
    /\ GroundingIdle
    /\ analyze_args \in [reviews : UNION {[1..n -> ReviewVals] : n \in 0..MaxReviewsLen},
                         max_reviews : TakeLimits, batch_size : BatchSizes]
    /\ review_sentiment_cache = {}
    /\ analysis = [NoAnalysis EXCEPT !.pc = "call"]
    /\ returned = <<>>
    /\ UpsertIdle
    /\ TracingIdle

\* sentiment_cache_service.py 64-101, and 149-155 when nothing is uncached
Analyze ==
    /\ analysis.pc = "call"
    /\ Len(returned) < MaxCalls
    /\ LET clean == CleanFrom(analyze_args.reviews, <<>>, analyze_args.max_reviews)
           hashes == [i \in 1..Len(clean) |-> text_hash(clean[i])]
           cached == get_cached_many(review_sentiment_cache, hashes)
           counted == CountCached(cached, hashes, 1,
                                  [sentiments |-> NoSentiments, reasons |-> <<>>,
                                   uncached_items |-> <<>>])
           frame == Frame("attempt", clean, hashes, counted.uncached_items, 0, 1,
                          NoException, <<>>, counted.sentiments, counted.reasons)
       IN IF counted.uncached_items = <<>>
          THEN /\ analysis' = [frame EXCEPT !.pc = "call"]
               /\ returned' = Append(returned, AnalysisResult(frame))
          ELSE /\ analysis' = frame
               /\ UNCHANGED returned
    /\ UNCHANGED <<chat, upserting, tracing, metrics, grounding, analyze_args, review_sentiment_cache>>

\* sentiment.py 128-167: the attempt's call returns in time with a JSON array
ModelCallReturns ==
    /\ analysis.pc = "attempt"
    /\ LET chunk == Chunk(analysis, analyze_args.batch_size) IN
       \E raw \in [1..Len(chunk) -> RawObjects] :
          analysis' = [analysis EXCEPT
                          !.outputs = [i \in 1..Len(chunk) |-> clean_output(raw[i])],
                          !.pc = "process"]
    /\ UNCHANGED <<chat, upserting, tracing, metrics, grounding, analyze_args, review_sentiment_cache, returned>>

\* sentiment.py 169-177: the attempt raises e; a retryable error before the last
\* attempt starts another one, anything else returns the empty list
ModelCallFailsWith(e) ==
    /\ analysis.pc = "attempt"
    /\ IF analysis.attempt = max_attempts \/ ~sentiment_is_retryable_error(e)
       THEN analysis' = [analysis EXCEPT
                            !.last_exc = e,
                            !.outputs = [i \in 1..Len(Chunk(analysis,
                                                            analyze_args.batch_size))
                                           |-> Absent],
                            !.pc = "process"]
       ELSE analysis' = [analysis EXCEPT !.last_exc = e, !.attempt = @ + 1]
    /\ UNCHANGED <<chat, upserting, tracing, metrics, grounding, analyze_args, review_sentiment_cache, returned>>

ModelCallFails == \E e \in ModelCallErrors : ModelCallFailsWith(e)

\* sentiment.py 64-73: the attempt's call never returns.  fut.result times out,
\* and leaving the `with ThreadPoolExecutor` block runs shutdown(wait=True),
\* which joins the worker thread that is still inside the call.
ModelCallNeverReturns ==
    /\ analysis.pc = "attempt"
    /\ analysis' = [analysis EXCEPT !.pc = "blocked"]
    /\ UNCHANGED <<chat, upserting, tracing, metrics, grounding, analyze_args, review_sentiment_cache, returned>>

\* sentiment_cache_service.py 113-147, and 149-155 after the last batch
ProcessBatch ==
    /\ analysis.pc = "process"
    /\ LET chunk == Chunk(analysis, analyze_args.batch_size)
           acc == ProcessChunk(chunk, analysis.hashes, analysis.outputs, 1,
                               [rows |-> review_sentiment_cache,
                                sentiments |-> analysis.sentiments,
                                reasons |-> analysis.reasons])
           next_start == analysis.start + analyze_args.batch_size
           more == next_start < Len(analysis.uncached_items)
           frame == [analysis EXCEPT !.sentiments = acc.sentiments,
                                     !.reasons = acc.reasons,
                                     !.start = next_start,
                                     !.attempt = 1,
                                     !.last_exc = NoException,
                                     !.pc = IF more THEN "attempt" ELSE "call"]
       IN /\ review_sentiment_cache' = acc.rows
          /\ analysis' = frame
          /\ returned' = IF more THEN returned ELSE Append(returned, AnalysisResult(frame))
    /\ UNCHANGED <<chat, upserting, tracing, metrics, grounding, analyze_args>>

NextSentiment ==
    \/ Analyze
    \/ ModelCallReturns
    \/ ModelCallFails
    \/ ModelCallNeverReturns
    \/ ProcessBatch

SpecSentiment == InitSentiment /\ [][NextSentiment]_vars

(***************************************************************************)
(* upsert_cache_row from concurrent sessions: each session upserts the     *)
(* reviews of a batch in one transaction and commits                       *)
(***************************************************************************)
\* executions of its batch per session
MaxRuns == 2
Sessions == {1, 2}
Hashes == {<<"a">>, <<"b">>}
\* gemini_client.py 4
MODEL_NAME == "gemini-2.5-flash-lite"
\* sentiment, reasons and latency_ms of an upsert
UpsertValues ==
    {[sentiment |-> "positive", reasons |-> <<<<"f">>>>, latency_ms |-> 10],
     [sentiment |-> "neutral", reasons |-> <<>>, latency_ms |-> 20]}
\* the hashes of a batch: no hash twice (sentiment_cache_service.py 73-76)
Batches == {<<h>> : h \in Hashes} \cup {b \in Hashes \X Hashes : b[1] # b[2]}

\* models.py 108-122: a row of review_sentiment_cache
CacheRow(id, h, v) ==
    [id |-> id, text_hash |-> h, model |-> MODEL_NAME, sentiment |-> v.sentiment,
     reasons |-> v.reasons, latency_ms |-> v.latency_ms]

\* upsert_cache_row as a plain INSERT
upsert_cache_row_PlainInsert(rows, seq, h, v) ==
    [rows |-> rows \cup {CacheRow(seq, h, v)}, seq |-> seq + 1]

\* sentiment_cache_service.py 19-47 on the rows the statement sees: INSERT takes
\* an id from the sequence; ON CONFLICT (text_hash) DO UPDATE sets the four
\* columns of the row that holds the hash
upsert_cache_row(rows, seq, h, v) ==
    LET conflict == {r \in rows : r.text_hash = h} IN
    IF conflict = {}
    THEN [rows |-> rows \cup {CacheRow(seq, h, v)}, seq |-> seq + 1]
    ELSE [rows |-> (rows \ conflict) \cup {CacheRow(r.id, h, v) : r \in conflict},
          seq |-> seq + 1]

\* an open transaction: the batch, the position in it, the hashes whose rows it
\* has written (and holds locked until it ends) and those rows
Transaction(pc_, batch, pos, run_, locked, written) ==
    [pc |-> pc_, batch |-> batch, pos |-> pos, run |-> run_, locked |-> locked,
     written |-> written]
\* what a statement of the transaction sees (READ COMMITTED): the committed
\* rows, with the transaction's own writes in place of those it rewrote
SessionView(table, tx) == {r \in table : r.text_hash \notin tx.locked} \cup tx.written
\* the statement waits: the unique index on text_hash holds an uncommitted
\* entry of another transaction for the hash
WaitsFor(s, t) ==
    /\ t # s
    /\ transactions[s].pc = "upsert"
    /\ transactions[s].pos <= Len(transactions[s].batch)
    /\ transactions[s].batch[transactions[s].pos] \in transactions[t].locked

InitUpsert ==
    /\ InitSession
    /\ MetricsIdle
    /\ GroundingIdle
    /\ SentimentIdle
    /\ TracingIdle
    /\ cache_table = {}
    /\ next_id = 1
    /\ transactions \in [Sessions -> {Transaction("upsert", b, 1, 1, {}, {}) : b \in Batches}]

\* sentiment_cache_service.py 133-140: the upsert of the next review of the batch
Upsert(s) ==
    /\ transactions[s].pc = "upsert"
    /\ transactions[s].pos <= Len(transactions[s].batch)
    /\ \A t \in Sessions : ~WaitsFor(s, t)
    /\ \E v \in UpsertValues :
         LET tx == transactions[s]
             h == tx.batch[tx.pos]
             out == upsert_cache_row(SessionView(cache_table, tx), next_id, h, v)
             locked == tx.locked \cup {h}
         IN /\ transactions' =
                  [transactions EXCEPT
                      ![s] = [tx EXCEPT !.pos = @ + 1,
                                        !.locked = locked,
                                        !.written = {r \in out.rows : r.text_hash \in locked}]]
            /\ next_id' = out.seq
    /\ UNCHANGED <<chat, metrics, grounding, sentiment, tracing, cache_table>>

\* sentiment_cache_service.py 147: db.commit() after the batch
Commit(s) ==
    /\ transactions[s].pc = "upsert"
    /\ transactions[s].pos > Len(transactions[s].batch)
    /\ cache_table' = SessionView(cache_table, transactions[s])
    /\ transactions' = [transactions EXCEPT ![s] = [@ EXCEPT !.pc = "done", !.locked = {},
                                                             !.written = {}]]
    /\ UNCHANGED <<chat, metrics, grounding, sentiment, tracing, next_id>>

\* two transactions wait for each other: the database ends one of them with an
\* error, which leaves analyze_reviews_with_cache; closing the session rolls
\* the transaction back
DeadlockDetected(s) ==
    /\ \E t \in Sessions : WaitsFor(s, t) /\ WaitsFor(t, s)
    /\ transactions' = [transactions EXCEPT ![s] = [@ EXCEPT !.pc = "failed", !.locked = {},
                                                             !.written = {}]]
    /\ UNCHANGED <<chat, metrics, grounding, sentiment, tracing, cache_table, next_id>>

\* the batch is executed again (at-least-once execution, or another call on the
\* same reviews that read the cache before the rows were committed)
Rerun(s) ==
    /\ transactions[s].pc \in {"done", "failed"}
    /\ transactions[s].run < MaxRuns
    /\ transactions' = [transactions EXCEPT ![s] = [@ EXCEPT !.pc = "upsert", !.pos = 1,
                                                             !.run = @ + 1]]
    /\ UNCHANGED <<chat, metrics, grounding, sentiment, tracing, cache_table, next_id>>

NextUpsert ==
    \E s \in Sessions :
       \/ Upsert(s)
       \/ Commit(s)
       \/ DeadlockDetected(s)
       \/ Rerun(s)

SpecUpsert == InitUpsert /\ [][NextUpsert]_vars

(***************************************************************************)
(* Conversations and trace rows: browser sessions in which users log in,   *)
(* chat and log out                                                        *)
(***************************************************************************)
\* rows of message_traces written in a run
MaxTraces == 3
Browsers == {1, 2}
UserIds == {1, 2}
\* None
NoId == 0

\* st.session_state of a browser session, with the position of its script
BrowserSession(pc_, user, conversation_id) ==
    [pc |-> pc_, user |-> user, conversation_id |-> conversation_id]

\* trace_service.py 19-24: the user's conversations, latest first; ids are
\* given in the order of creation
LatestConversation(user_id) ==
    LET own == {c \in conversations : c.user_id = user_id}
    IN IF own = {} THEN NoId
       ELSE (CHOOSE c \in own : \A d \in own : d.id <= c.id).id

\* Analytics_Chat.py 117-140: a browser session starts with no user and no
\* conversation_id, at the login gate
InitConversation ==
    /\ InitSession
    /\ MetricsIdle
    /\ GroundingIdle
    /\ SentimentIdle
    /\ UpsertIdle
    /\ browsers = [b \in Browsers |-> BrowserSession("login", NoId, NoId)]
    /\ conversations = {}
    /\ traces = <<>>

\* Analytics_Chat.py 143-175: the login form sets st.session_state.user
SessionLogin(b) ==
    /\ browsers[b].pc = "login"
    /\ \E u \in UserIds :
          browsers' = [browsers EXCEPT ![b] = [@ EXCEPT !.user = u, !.pc = "idle"]]
    /\ UNCHANGED <<chat, metrics, grounding, sentiment, upserting, conversations, traces>>

\* Analytics_Chat.py 194-196: Logout sets st.session_state.user = None and
\* reruns; the rerun stops at the login gate
SessionLogout(b) ==
    /\ browsers[b].pc = "idle"
    /\ browsers' = [browsers EXCEPT ![b] = [@ EXCEPT !.user = NoId, !.pc = "login"]]
    /\ UNCHANGED <<chat, metrics, grounding, sentiment, upserting, conversations, traces>>

\* Analytics_Chat.py 336-355: a chat input; get_or_create_conversation is called
\* when the session holds no conversation_id, and its query runs
ChatInput(b) ==
    /\ browsers[b].pc = "idle"
    /\ Len(traces) < MaxTraces
    /\ IF browsers[b].conversation_id # NoId
       THEN browsers' = [browsers EXCEPT ![b] = [@ EXCEPT !.pc = "log_trace"]]
       ELSE LET conv == LatestConversation(browsers[b].user)
            IN IF conv # NoId
               THEN browsers' = [browsers EXCEPT ![b] = [@ EXCEPT !.conversation_id = conv,
                                                                  !.pc = "log_trace"]]
               ELSE browsers' = [browsers EXCEPT ![b] = [@ EXCEPT !.pc = "create"]]
    /\ UNCHANGED <<chat, metrics, grounding, sentiment, upserting, conversations, traces>>

\* trace_service.py 28-32, Analytics_Chat.py 353: the query found no
\* conversation of the user; one is inserted and committed
CreateConversation(b) ==
    /\ browsers[b].pc = "create"
    /\ LET id == Cardinality(conversations) + 1
       IN /\ conversations' = conversations \cup {[id |-> id, user_id |-> browsers[b].user]}
          /\ browsers' = [browsers EXCEPT ![b] = [@ EXCEPT !.conversation_id = id,
                                                           !.pc = "log_trace"]]
    /\ UNCHANGED <<chat, metrics, grounding, sentiment, upserting, traces>>

\* Analytics_Chat.py 354-355, 440-450, trace_service.py 35-59: the turn's trace
\* row, under the session's conversation_id and user id
LogTrace(b) ==
    /\ browsers[b].pc = "log_trace"
    /\ traces' = Append(traces, [conversation_id |-> browsers[b].conversation_id,
                                 user_id |-> browsers[b].user])
    /\ browsers' = [browsers EXCEPT ![b] = [@ EXCEPT !.pc = "idle"]]
    /\ UNCHANGED <<chat, metrics, grounding, sentiment, upserting, conversations>>

NextConversation ==
    \E b \in Browsers :
       \/ SessionLogin(b)
       \/ SessionLogout(b)
       \/ ChatInput(b)
       \/ CreateConversation(b)
       \/ LogTrace(b)

SpecConversation == InitConversation /\ [][NextConversation]_vars

(***************************************************************************)
(* validate_tool_call on its own: every candidate against every allowed    *)
(* set                                                                     *)
(***************************************************************************)
InitValidate ==
    /\ AsideIdle
    /\ app = "Analytics_Chat"
    /\ role = "analyst"
    /\ db_allowed = {}
    /\ access_version = 0
    /\ top_n = 15
    /\ top_metric = "review_count"
    /\ compare_pair = NoPair
    /\ rating_dist_category = NoCategory
    /\ chat_messages = <<>>
    /\ pc = "validate"
    /\ user_text = FALSE
    /\ visible_categories = {}
    /\ router_out \in Candidates(MaxStrLen)
    /\ allowed_categories \in SUBSET DatasetCategories
    /\ chart_pair = NoPair
    /\ route_failed = FALSE
    /\ validated = NoCall
    /\ prev_state = NoPrevState
    /\ tool_result = NoResult
    /\ assistant_text = Sorry
    /\ outcome = ""
    /\ trace_row = NoTraceRow
    /\ message_traces = <<>>
    /\ run_allowed = {}
    /\ filter_cache = {}

Validate ==
    /\ pc = "validate"
    /\ validated' = validate_tool_call(router_out, allowed_categories)
    /\ pc' = "validated"
    /\ UNCHANGED <<aside, app, message_traces, cache,role, database, session, user_text, visible_categories,
                   allowed_categories, chart_pair, route_failed, router_out, prev_state,
                   tool_result, assistant_text, outcome, trace_row>>

NextValidate == Validate

SpecValidate == InitValidate /\ [][NextValidate]_vars


(***************************************************************************)
(* Properties                                                              *)
(***************************************************************************)
CategoryTools == {"rating_distribution", "sentiment_summary", "compare_categories"}
\* the category strings a call carries in category, category_a, category_b
Carried(args) ==
    {v.s : v \in {x \in {args.category, args.category_a, args.category_b} : IsStr(x)}}
\* the categories a candidate names: its category fields as the validator reads them
Named(args) == {strip(x) : x \in Carried(args)} \ {<<>>}

\* C1: a validated rating_distribution, sentiment_summary or compare_categories
\* call carries only categories of the allowed set, and a candidate for one of
\* these tools that names a category outside the set yields a fallback call
\* (one with a fallback_reason) that does not carry that category.
C1_AccessEnforcement ==
    (pc = "validated" /\ ~validated.raised) =>
        /\ validated.tool \in CategoryTools =>
               Carried(validated.args) \subseteq allowed_categories
        /\ (IsStr(router_out.tool) /\ router_out.tool.s \in CategoryTools
              /\ router_out.args.k = "dict") =>
               \A c \in Named(router_out.args) \ allowed_categories :
                   /\ validated.fallback_reason # NoReason
                   /\ c \notin Carried(validated.args)

\* the field constraints of each exposed tool on validated args
ArgsWellFormed(tool, args, allowed) ==
    IF tool = "general_query"
    THEN /\ IsStr(args.query_type) /\ args.query_type.s \in QueryTypes
         /\ args.query_type.s = "category_info" =>
                IsStr(args.category) /\ args.category.s \in allowed
    ELSE IF tool = "metrics_top_categories"
    THEN /\ IsInt(args.top_n) /\ args.top_n.n >= 1 /\ args.top_n.n <= 52
         /\ args.metric.k = "missing" \/ (IsStr(args.metric) /\ args.metric.s \in Metrics)
    ELSE IF tool = "rating_distribution"
    THEN IsStr(args.category) /\ args.category.s \in allowed
    ELSE IF tool = "sentiment_summary"
    THEN /\ IsStr(args.category) /\ args.category.s \in allowed
         /\ IsInt(args.max_reviews) /\ args.max_reviews.n >= 5 /\ args.max_reviews.n <= 200
    ELSE IF tool = "compare_categories"
    THEN /\ IsStr(args.category_a) /\ args.category_a.s \in allowed
         /\ IsStr(args.category_b) /\ args.category_b.s \in allowed
    ELSE FALSE

\* C2: validate_tool_call is total: for every candidate it returns, without
\* raising, a call of one of the five exposed tools whose args satisfy that
\* tool's field constraints.
C2_ValidatorTotal ==
    pc = "validated" =>
        /\ ~validated.raised
        /\ validated.tool \in ALLOWED_TOOLS
        /\ ArgsWellFormed(validated.tool, validated.args, allowed_categories)

\* C3: whatever the classifier, executor and response stages do, the user
\* message of a turn is followed by exactly one assistant message when the turn
\* is over (a failing trace write is not one of these stages).
C3_EveryTurnAnswered ==
    (pc = "turn_done" /\ outcome # "trace_raised") =>
        /\ Len(chat_messages) >= 2
        /\ chat_messages[Len(chat_messages)] = "assistant"
        /\ chat_messages[Len(chat_messages) - 1] = "user"

\* C4: when the classifier call fails, the candidate handed to
\* validate_tool_call is general_query {query_type: summary_stats} and the turn
\* goes on through validation, in every chat entry point.
C4_ClassifierFailureDefault ==
    (pc = "turn_done" /\ route_failed) =>
        /\ router_out.tool = StrV("general_query")
        /\ router_out.args = [NoArgs EXCEPT !.query_type = StrV("summary_stats")]
        /\ outcome # "validate_raised"

Acknowledgments == {"already_up_to_date", "still_comparing", "already_showing"}
PlotTools == {"metrics_top_categories", "compare_categories", "rating_distribution"}
\* the turn computed its response text
Responded == outcome \in {"ok", "trace_raised"}

\* C5: a turn of a plot-updating tool that leaves the view state identical to
\* the state captured before the turn answers with the acknowledgment, never
\* with a text saying the view was updated.
C5_StateIdempotence ==
    (pc = "turn_done" /\ app = "Analytics_Chat" /\ Responded
        /\ validated.tool \in PlotTools /\ CurrentView = prev_state) =>
        assistant_text.kind \in Acknowledgments

\* C6: after a turn whose validated call is metrics_top_categories with
\* top_n = n and metric = m, the view has top_n = n, top_metric = m and no
\* compare_pair.
C6_TopCategoriesSetsView ==
    (pc = "turn_done" /\ app = "Analytics_Chat"
        /\ validated.tool = "metrics_top_categories"
        /\ validated.args.top_n.k # "missing" /\ validated.args.metric.k # "missing") =>
        /\ top_n = validated.args.top_n.n
        /\ top_metric = validated.args.metric.s
        /\ compare_pair = NoPair

\* C7: after a turn whose validated call is compare_categories on a and b, the
\* view has compare_pair = (a, b) and rating_dist_category = a, and top_n and
\* top_metric are what they were before the turn.
C7_CompareSetsView ==
    (pc = "turn_done" /\ app = "Analytics_Chat"
        /\ validated.tool = "compare_categories") =>
        /\ compare_pair = <<validated.args.category_a.s, validated.args.category_b.s>>
        /\ rating_dist_category = validated.args.category_a.s
        /\ top_n = prev_state.top_n
        /\ top_metric = prev_state.top_metric
\* a compare turn on a view whose histogram showed the second category
C7_Witness ==
    /\ pc = "turn_done" /\ app = "Analytics_Chat" /\ outcome = "ok"
    /\ validated.tool = "compare_categories"
    /\ prev_state.rating_dist_category = CatB
    /\ prev_state.compare_pair = NoPair
    /\ compare_pair = <<CatA, CatB>>
    /\ rating_dist_category = CatA

\* C8: a general_query or sentiment_summary turn leaves the four view fields
\* as they were before the turn; a rating_distribution turn changes only
\* rating_dist_category, to the validated category.
C8_InformationalToolsKeepView ==
    (pc = "turn_done" /\ app = "Analytics_Chat") =>
        /\ validated.tool \in {"general_query", "sentiment_summary"} =>
               CurrentView = prev_state
        /\ validated.tool = "rating_distribution" =>
               CurrentView = [prev_state EXCEPT
                                 !.rating_dist_category = validated.args.category.s]
\* a sentiment_summary turn while a comparison is on display
C8_Witness ==
    /\ pc = "turn_done" /\ app = "Analytics_Chat" /\ outcome = "ok"
    /\ validated.tool = "sentiment_summary"
    /\ compare_pair = <<CatB, CatA>>
    /\ rating_dist_category = CatB

\* C9: in every reachable state top_n is an integer in [5,50] and top_metric
\* is one of review_count, nps, avg_rating.
C9_ViewInRange ==
    /\ top_n \in 5..50
    /\ top_metric \in Metrics
\* a validated top_n of 52 has been applied to the view
C9_Witness ==
    /\ pc = "turn_done" /\ app = "Analytics_Chat"
    /\ validated.tool = "metrics_top_categories"
    /\ validated.args.top_n = IntV(52)
    /\ top_n = 50

\* a step of the chat turn handler
HandlerStep == pc = "handler" /\ pc' = "turn_done"
\* a step of the page's chart code that drops a pair with a vanished category
RenderDropsPair ==
    /\ pc = "run" /\ pc' \in {"idle", "handler"}
    /\ compare_pair # NoPair /\ compare_pair' = NoPair
    /\ compare_pair[1] \notin allowed_categories' \/ compare_pair[2] \notin allowed_categories'
ViewChangeByTool ==
    /\ (top_n' # top_n \/ top_metric' # top_metric) =>
           HandlerStep /\ validated'.tool = "metrics_top_categories"
    /\ rating_dist_category' # rating_dist_category =>
           HandlerStep /\ validated'.tool \in {"rating_distribution", "compare_categories"}
PairChangeByTool ==
    \/ HandlerStep /\ validated'.tool = "metrics_top_categories" /\ compare_pair' = NoPair
    \/ HandlerStep /\ validated'.tool = "compare_categories" /\ compare_pair' # NoPair

\* C10 as stated: the view fields change only by a validated tool call of the
\* matching kind within a chat turn; no render step modifies any of them.
C10_OnlyToolCallsChangeView ==
    [][ViewChangeByTool /\ (compare_pair' # compare_pair => PairChangeByTool)]_vars

\* C10 amended: as above, except that the page's chart step also clears
\* compare_pair when one of its categories has no row in the run's metrics frame.
C10_OnlyToolCallsOrRenderDrop ==
    [][ViewChangeByTool
       /\ (compare_pair' # compare_pair => PairChangeByTool \/ RenderDropsPair)]_vars
\* a run has finished whose chart step found a pair and dropped it
C10_Witness ==
    /\ pc = "idle"
    /\ chart_pair = <<CatA, CatB>>
    /\ compare_pair = NoPair
    /\ rating_dist_category = CatA

\* the compare_categories args naming a stored pair
PairArgs(pair) ==
    [NoArgs EXCEPT !.category_a = CStr(pair[1]), !.category_b = CStr(pair[2])]
\* the run has passed the chart step with a non-empty metrics frame
PastCharts ==
    /\ app = "Analytics_Chat"
    /\ pc \in {"handler", "turn_done"} \/ (pc = "idle" /\ allowed_categories # {})
CompareError == "one_or_both_categories_not_found"

C12_LoginStartsFromDefaults ==
    /\ CurrentView = View(15, "review_count", NoPair, NoCategory)
    /\ chat_messages = <<>>
    /\ [][(pc = "login" /\ pc' = "run") =>
            /\ CurrentView' = View(15, "review_count", NoPair, NoCategory)
            /\ chat_messages' = <<>>]_vars

\* the candidate asks for tool t with a mapping as args
Asks(t) == router_out.tool = StrV(t) /\ router_out.args.k = "dict"
\* a category field that is a string with something left after trimming
NonBlank(v) == IsStr(v) /\ strip(v.s) # <<>>

\* C13: for a compare_categories candidate the missing-field check comes
\* first, then equality, then membership: a missing or blank side gives the
\* missing-categories fallback whatever the other side is, and two non-blank
\* sides equal after trimming give rating_distribution on the trimmed category
\* with a fallback_reason, whether or not the category is allowed.
C13_CompareCheckOrder ==
    (pc = "validated" /\ Asks("compare_categories")) =>
        LET a == router_out.args.category_a
            b == router_out.args.category_b
        IN /\ ~(NonBlank(a) /\ NonBlank(b)) =>
                  /\ validated.tool = "metrics_top_categories"
                  /\ validated.fallback_reason = ReasonMissingCompare
           /\ (NonBlank(a) /\ NonBlank(b) /\ strip(a.s) = strip(b.s)) =>
                  /\ validated.tool = "rating_distribution"
                  /\ validated.args = [NoArgs EXCEPT !.category = CStr(strip(a.s))]
                  /\ validated.fallback_reason \notin {NoReason, ""}
           /\ (NonBlank(a) /\ NonBlank(b) /\ strip(a.s) # strip(b.s)) =>
                  validated.tool \in {"metrics_top_categories", "compare_categories"}
\* both sides trim to the same category, which is not in the allowed set
C13_Witness ==
    /\ pc = "validated"
    /\ router_out.tool = StrV("compare_categories")
    /\ router_out.args.category_a = CStr(<<" ", "B">>)
    /\ router_out.args.category_b = CStr(<<"B", " ">>)
    /\ allowed_categories = {CatA}
    /\ validated.tool = "rating_distribution"
    /\ validated.args.category = CStr(CatB)

\* C14: for a metrics_top_categories candidate the validated top_n is the
\* input when that is an integer in the accepted range 1..52 and 15 otherwise,
\* and the validated metric is the input when that is review_count, nps or
\* avg_rating and review_count otherwise.
C14_TopNAndMetricDefaults ==
    (pc = "validated" /\ Asks("metrics_top_categories")) =>
        LET n == router_out.args.top_n
            m == router_out.args.metric
        IN /\ ~validated.raised
           /\ validated.tool = "metrics_top_categories"
           /\ validated.args.top_n = IF IsInt(n) /\ n.n \in 1..52 THEN n ELSE IntV(15)
           /\ validated.args.metric =
                  IF IsStr(m) /\ m.s \in Metrics THEN m ELSE StrV("review_count")

\* C15: for a rating_distribution or sentiment_summary candidate, a missing,
\* non-string or blank category yields the default metrics_top_categories call
\* (top_n 15, metric review_count) with a fallback_reason; a category outside
\* the allowed set yields the same call with another, access-denied reason; an
\* accepted sentiment_summary call carries max_reviews in 5..200, the input
\* when that is an integer in the range and 30 otherwise.
C15_CategoryToolFallbacks ==
    (pc = "validated"
        /\ (Asks("rating_distribution") \/ Asks("sentiment_summary"))) =>
        LET cat == router_out.args.category
            mr == router_out.args.max_reviews
        IN /\ ~NonBlank(cat) =>
                  /\ validated.tool = "metrics_top_categories"
                  /\ validated.args = DefaultTopArgs
                  /\ validated.fallback_reason = ReasonMissingCategory
           /\ (NonBlank(cat) /\ strip(cat.s) \notin allowed_categories) =>
                  /\ validated.tool = "metrics_top_categories"
                  /\ validated.args = DefaultTopArgs
                  /\ validated.fallback_reason = ReasonCategoryNotAllowed
           /\ validated.tool = "sentiment_summary" =>
                  validated.args.max_reviews =
                      IF IsInt(mr) /\ mr.n \in 5..200 THEN mr ELSE IntV(30)

\* C16: for a general_query candidate the validated query_type is one of the
\* four query types, summary_stats when the input is none of them; it is
\* category_info only with the trimmed category, which is in the allowed set,
\* and a category_info request without such a category is downgraded to
\* summary_stats with a fallback_reason.
C16_GeneralQueryTypes ==
    (pc = "validated" /\ Asks("general_query")) =>
        LET qt == Get(router_out.args.query_type, StrV("summary_stats"))
            cat == router_out.args.category
            known == IsStr(qt) /\ qt.s \in QueryTypes
            granted == NonBlank(cat) /\ strip(cat.s) \in allowed_categories
        IN /\ ~validated.raised
           /\ validated.tool = "general_query"
           /\ IsStr(validated.args.query_type)
           /\ validated.args.query_type.s \in QueryTypes
           /\ ~known => validated.args.query_type.s = "summary_stats"
           /\ validated.args.query_type.s = "category_info" =>
                  /\ known /\ qt.s = "category_info" /\ granted
                  /\ validated.args.category = CStr(strip(cat.s))
           /\ (known /\ qt.s = "category_info" /\ ~granted) =>
                  /\ validated.args.query_type.s = "summary_stats"
                  /\ validated.fallback_reason \notin {NoReason, ""}

\* C17: a candidate whose tool is not one of the five exposed names, or whose
\* args is not a mapping, yields exactly general_query {query_type:
\* summary_stats} with a non-empty fallback_reason.
C17_InvalidToolDefault ==
    (pc = "validated"
        /\ (~(IsStr(router_out.tool) /\ router_out.tool.s \in ALLOWED_TOOLS)
              \/ router_out.args.k \notin {"dict", "missing"})) =>
        /\ ~validated.raised
        /\ validated.tool = "general_query"
        /\ validated.args = [NoArgs EXCEPT !.query_type = StrV("summary_stats")]
        /\ validated.fallback_reason \notin {NoReason, ""}

\* the returned call is not of the tool the candidate asked for
ToolReplaced == router_out.tool # StrV(validated.tool)
\* a category_info request came back as summary_stats
Downgraded ==
    /\ Asks("general_query")
    /\ router_out.args.query_type = StrV("category_info")
    /\ validated.args.query_type = StrV("summary_stats")
HasReason == validated.fallback_reason \notin {NoReason, ""}
\* the rationale codes the validator writes into the calls it substitutes
FallbackRationales ==
    {StrV(c) : c \in {"fallback_invalid_tool", "fallback_missing_compare_categories",
                      "fallback_same_category_compare",
                      "fallback_compare_category_not_allowed",
                      "fallback_missing_category", "fallback_category_not_allowed",
                      "fallback_default"}}

\* C18 as stated: every call returned in place of what the candidate asked for
\* (another tool, or category_info downgraded to summary_stats) carries a
\* non-empty fallback_reason that differs from the call's rationale.
C18_ReasonDiffersFromRationale ==
    (pc = "validated" /\ ~validated.raised /\ (ToolReplaced \/ Downgraded)) =>
        /\ HasReason
        /\ validated.rationale # StrV(validated.fallback_reason)

\* C18 amended: every such call carries a non-empty fallback_reason; when the
\* tool was replaced the rationale is one of the validator's own fallback codes,
\* which differs from the reason; when category_info was downgraded the
\* rationale is the candidate's own rationale, whatever it says.
C18_ReasonBesideRationale ==
    (pc = "validated" /\ ~validated.raised /\ (ToolReplaced \/ Downgraded)) =>
        /\ HasReason
        /\ ToolReplaced =>
               /\ validated.rationale \in FallbackRationales
               /\ validated.rationale # StrV(validated.fallback_reason)
        /\ Downgraded => validated.rationale = Get(router_out.rationale, StrV(""))
\* a downgraded category_info call whose rationale is the reason's own sentence
C18_Witness ==
    /\ pc = "validated" /\ Downgraded
    /\ validated.fallback_reason = ReasonCategoryInfo
    /\ validated.rationale = StrV(ReasonCategoryInfo)

\* C19: the allowed set and access_version change together and only by
\* set_user_categories: a step that changes the set raises the version by
\* exactly 1, a step that changes the version raises it by exactly 1 and leaves
\* an assigned set in place, the version never decreases, a failed call changes
\* neither, and a step that changes either changes nothing of the session.
C19_AccessChangeAtomic ==
    [][/\ access_version' >= access_version
       /\ db_allowed' # db_allowed => access_version' = access_version + 1
       /\ access_version' # access_version =>
              /\ access_version' = access_version + 1
              /\ db_allowed' \in AdminChoices
       /\ <<db_allowed', access_version'>> # <<db_allowed, access_version>> =>
              UNCHANGED <<aside, app, message_traces, role, session, run, locals>>]_vars
\* two assignments have been committed
C19_Witness ==
    /\ access_version = 2
    /\ db_allowed = {CatA, CatB}

\* the step of a run that calls the cached filter
FilterStep == pc = "read_version" /\ pc' = "idle"
\* what the page shows of a filtered frame
Shown(frame) == IF app = "Analytics_Chat" THEN ChatCategories(frame) ELSE frame

\* C20: a run whose reads follow the commit shows the dataset filtered by the
\* stored allowed set; the frame it is served is the entry under the
\* access_version it read, and when no entry has that version the filter is
\* computed anew, even if an entry for the same set exists under an earlier
\* version.
C20_FilterFollowsAccessVersion ==
    [][FilterStep =>
         /\ run_allowed = db_allowed =>
                visible_categories' = Shown(DatasetCategories \cap db_allowed)
         /\ \E e \in filter_cache' :
                /\ e = CacheEntry(run_allowed, access_version,
                                  DatasetCategories \cap run_allowed)
                /\ visible_categories' = Shown(e.value)
         /\ (\A e \in filter_cache : e.access_version # access_version) =>
                filter_cache' # filter_cache]_vars
\* the same set was filtered again under a later access_version
C20_Witness ==
    /\ pc = "idle"
    /\ CacheEntry({CatA}, 1, {CatA}) \in filter_cache
    /\ CacheEntry({CatA}, 2, {CatA}) \in filter_cache
    /\ visible_categories = {CatA}

\* a script run gets past its access and review-count filters
RenderStep == pc = "run" /\ pc' \in {"idle", "handler"}

\* C21 as stated: the visible dataset of a run holds, for a role other than
\* admin, only categories of the allowed set read in that run, and for role
\* admin the full dataset, unfiltered.
C21_AdminSeesFullDataset ==
    [][RenderStep =>
         /\ role # "admin" => visible_categories' \subseteq db_allowed
         /\ role = "admin" => visible_categories' = DatasetCategories]_vars

\* C21 amended: for a role other than admin the visible dataset is the dataset
\* restricted to the allowed set read in that run, for admin no access filter
\* is applied; in Analytics_Chat the result is further restricted, for every
\* role, to the categories with at least 10 reviews.
C21_AccessFilterByRole ==
    [][RenderStep =>
         LET unfiltered == IF role = "admin" THEN DatasetCategories
                           ELSE DatasetCategories \cap db_allowed
         IN visible_categories' =
               IF app = "Analytics_Chat"
               THEN {c \in unfiltered : ReviewCount(c) >= MinReviews}
               ELSE unfiltered]_vars
\* an admin's Analytics_Chat run has finished without the small category
C21_Witness ==
    /\ pc = "idle" /\ role = "admin" /\ app = "Analytics_Chat"
    /\ visible_categories = {CatA, CatB}
    /\ db_allowed = {}

\* C22: in every chat turn, of every chat entry point, the allowed-category
\* list handed to the classifier and the validator holds only categories with
\* at least 10 reviews in the visible dataset.
C22_ChatCategoriesHaveTenReviews ==
    pc \in {"handler", "turn_done"} =>
        \A c \in allowed_categories : ReviewCount(c) >= MinReviews

\* C25: the trace store holds exactly one row per processed user message, in
\* the order of the turns; the row written in a turn holds that turn's query,
\* raw candidate, validated call and response.
C25_OneTraceRowPerTurn ==
    /\ Len(message_traces) = Turns
    /\ \A i \in 1..Len(message_traces) : message_traces[i] = i
    /\ pc = "turn_done" =>
           trace_row = TraceRow(Turns, router_out, validated, assistant_text)

\* C28: a turn that answers with the 'already up to date / still comparing /
\* already showing' acknowledgment leaves all four view fields as they were
\* before the turn.
C28_AcknowledgmentOnlyWhenUnchanged ==
    (pc = "turn_done" /\ app = "Analytics_Chat" /\ Responded
        /\ assistant_text.kind \in Acknowledgments) =>
        CurrentView = prev_state

\* the arguments run_tool reads with args[...]
ReadUnconditionally(tool, args) ==
    IF tool = "metrics_top_categories" THEN {args.top_n}
    ELSE IF tool = "rating_distribution" THEN {args.category}
    ELSE IF tool = "sentiment_summary" THEN {args.category, args.max_reviews}
    ELSE IF tool = "compare_categories" THEN {args.category_a, args.category_b}
    ELSE {}

\* C29: in every turn that reaches the executor, run_tool is applied to the
\* validated tool and args, every argument it reads unconditionally is
\* present, it returns a result without raising, and the result is never the
\* 'unknown_tool' error.
C29_ExecutorNeverRaises ==
    (pc = "turn_done" /\ outcome # "validate_raised") =>
        /\ tool_result = run_tool(visible_categories, validated.tool, validated.args)
        /\ \A v \in ReadUnconditionally(validated.tool, validated.args) : v.k # "missing"
        /\ tool_result.error # "unknown_tool"
        /\ tool_result.kind # "raised"

\* category_metrics has returned
Computed == metrics_out # NotComputed
\* the records of a category in the input, by what their rating is
NonNull(c) ==
    {i \in 1..Len(metrics_df) :
        metrics_df[i].category = c /\ metrics_df[i].rating # NullRating}
Promoters(c) == {i \in NonNull(c) : metrics_df[i].rating >= 4}
Detractors(c) == {i \in NonNull(c) : metrics_df[i].rating <= 2}
\* one row per distinct category of the input, review_count the number of the
\* category's records with a non-null rating, rows by review_count descending
CountsAndOrder ==
    /\ \A k \in 1..Len(metrics_df) :
          Cardinality({i \in 1..Len(metrics_out) :
                          metrics_out[i].category = metrics_df[k].category}) = 1
    /\ \A i \in 1..Len(metrics_out) :
          /\ \E k \in 1..Len(metrics_df) : metrics_df[k].category = metrics_out[i].category
          /\ metrics_out[i].review_count = Cardinality(NonNull(metrics_out[i].category))
    /\ \A i, j \in 1..Len(metrics_out) :
          i < j => metrics_out[i].review_count >= metrics_out[j].review_count
\* nps of a row is (promoters - detractors) / total * 100, within [-100, 100],
\* and 0 when promoters equal detractors
NpsByFormula(row) ==
    LET promoters == Cardinality(Promoters(row.category))
        detractors == Cardinality(Detractors(row.category))
        total == Cardinality(NonNull(row.category))
    IN /\ ~row.nps.nan
       /\ row.nps.num * total = (promoters - detractors) * 100 * row.nps.den
       /\ row.nps.num >= (0 - 100) * row.nps.den
       /\ row.nps.num <= 100 * row.nps.den
       /\ promoters = detractors => row.nps.num = 0
\* ratings [5,5,1,1,3] give nps 0
NpsExample == compute_nps(<<5, 5, 1, 1, 3>>) = Quotient(0, 5)

\* C27 as stated: category_metrics returns one row per distinct category, with
\* review_count the number of records with non-null rating and nps =
\* (promoters - detractors)/total * 100 in [-100,100] in every row, 0 when
\* promoters equal detractors, and the rows by review_count descending.
C27_NpsInEveryRow ==
    Computed =>
        /\ CountsAndOrder
        /\ NpsExample
        /\ \A i \in 1..Len(metrics_out) : NpsByFormula(metrics_out[i])

\* C27 amended: as stated for the rows of categories with at least one
\* non-null rating; the row of a category whose ratings are all null has
\* review_count 0 and nps NaN, outside [-100,100].
C27_NpsWhereRated ==
    Computed =>
        /\ CountsAndOrder
        /\ NpsExample
        /\ \A i \in 1..Len(metrics_out) :
              IF metrics_out[i].review_count > 0
              THEN NpsByFormula(metrics_out[i])
              ELSE metrics_out[i].nps = NaN
\* a category with one promoter and one detractor ahead of one never rated
C27_Witness ==
    /\ Computed
    /\ Len(metrics_out) = 2
    /\ metrics_out[1].review_count = 2
    /\ Cardinality(Promoters(metrics_out[1].category)) = 1
    /\ Cardinality(Detractors(metrics_out[1].category)) = 1
    /\ metrics_out[1].nps = Quotient(0, 2)
    /\ metrics_out[2].review_count = 0

\* the count field a tool's evidence rests on does not hold a count
CountFieldUnusable ==
    LET r == grounding_result IN
    \/ ~r.is_dict
    \/ /\ grounding_tool = "metrics_top_categories"
       /\ \/ r.metrics.kind # "list" \/ r.metrics.len = 0 \/ ~r.metrics.top_is_dict
          \/ coerce_int(r.metrics.review_count).none
    \/ /\ grounding_tool = "rating_distribution"
       /\ \/ r.rating_distribution.kind # "dict"
          \/ \A i \in 1..Len(r.rating_distribution.values) :
                coerce_int(r.rating_distribution.values[i]).none
    \/ /\ grounding_tool = "sentiment_summary"
       /\ \/ r.sentiment.kind # "dict"
          \/ coerce_int(r.sentiment.review_count_analyzed).none
    \/ /\ grounding_tool = "general_query"
       /\ coerce_int(r.total_reviews).none
       /\ coerce_int(r.total_categories).none
    \/ grounding_tool \notin {"metrics_top_categories", "rating_distribution",
                              "sentiment_summary", "general_query"}

\* C26: add_grounding never raises and appends at most two evidence
\* statements; when the tool's count field is absent, boolean, non-finite or
\* non-integral, or the result does not have the tool's shape, it appends
\* nothing.
C26_GroundingSkipsSilently ==
    grounded # NotGrounded =>
        /\ ~grounded.raised
        /\ Len(grounded.additions) <= 2
        /\ CountFieldUnusable => grounded.additions = <<>>

\* the number of distinct non-empty reviews taken, at most max_reviews
ExpectedTaken ==
    Min(analyze_args.max_reviews,
        Cardinality({text_hash(analyze_args.reviews[i].s) :
                        i \in {j \in 1..Len(analyze_args.reviews) :
                                  /\ IsStr(analyze_args.reviews[j])
                                  /\ strip(analyze_args.reviews[j].s) # <<>>}}))
\* a batch has been processed and its outputs are still in hand
BatchProcessed == analysis.pc \in {"attempt", "call"} /\ analysis.start > 0
\* the reviews of that batch
LastChunk ==
    SubSeq(analysis.uncached_items, analysis.start - analyze_args.batch_size + 1,
           Min(analysis.start, Len(analysis.uncached_items)))
\* every review the batch's outputs left out is stored as neutral without
\* reasons, and every result counts each review taken exactly once
FailClosedAccounting ==
    /\ BatchProcessed =>
          \A i \in 1..Len(LastChunk) :
             analysis.outputs[i] = Absent =>
                [text_hash |-> analysis.hashes[LastChunk[i]], sentiment |-> "neutral",
                 reasons |-> <<>>] \in review_sentiment_cache
    /\ \A k \in 1..Len(returned) :
          /\ returned[k].review_count_analyzed = ExpectedTaken
          /\ returned[k].review_count_analyzed =
                Cardinality({row.text_hash : row \in review_sentiment_cache})

\* C23: when a batch call fails after its retries, times out or omits an
\* index, analyze_reviews_with_cache still returns: it is never left waiting,
\* each affected review is counted once as neutral with no reasons, and
\* review_count_analyzed is the number of distinct non-empty reviews taken.
C23_FailedBatchesCountNeutral ==
    /\ analysis.pc # "blocked"
    /\ FailClosedAccounting

\* C24: every later call on the same reviews, served from the cache the first
\* call filled, returns the sentiment_distribution and top_reasons of the
\* first call.
C24_CacheHitReproducesMiss ==
    \A k \in 2..Len(returned) :
       /\ returned[k].sentiment_distribution = returned[1].sentiment_distribution
       /\ returned[k].top_reasons = returned[1].top_reasons
\* two reviews analysed by the model, then both served from the cache
C24_Witness ==
    /\ Len(returned) = 2
    /\ returned[1].cache_hits = 0
    /\ returned[2].cache_hits = 2
    /\ Len(returned[2].top_reasons) = 3
    /\ returned[2].top_reasons[1] = [key |-> <<"f">>, n |-> 2]

\* C30: analyze_reviews_batch terminates whatever the model call does: it
\* makes at most max_attempts attempts and, until the call has returned, some
\* step of it can always be taken.
C30_BatchTerminates ==
    /\ analysis.attempt <= max_attempts
    /\ analysis.pc \notin {"off", "call"} => ENABLED NextSentiment

\* C31: the classifier call is bounded: a chat turn is never left waiting
\* inside the classifier's model call, and a turn whose classifier call failed
\* goes on with the entry point's default candidate.
C31_ClassifierCallBounded ==
    /\ pc # "route_tool"
    /\ (pc = "turn_done" /\ route_failed) =>
           router_out \in {FallbackAnalyticsChat, FallbackStreamlitApp}

\* the failures the specification calls transient
TransientCauses == {"rate_limit", "quota", "unavailable", "deadline", "timeout"}
\* analyze_reviews_batch has returned the empty list
ReturnedEmpty ==
    /\ analysis'.pc = "process"
    /\ \A i \in 1..Len(analysis'.outputs) : analysis'.outputs[i] = Absent

\* C32: analyze_reviews_batch makes at most max_attempts attempts per batch,
\* starts another attempt only after a failure whose cause is transient (rate
\* limit, quota, unavailable, deadline, timeout), and after a failure of
\* another cause (malformed JSON, auth) makes no further attempt and returns
\* the empty list.
C32_RetryOnlyTransient ==
    [][/\ analysis'.attempt <= max_attempts
       /\ (analysis.pc = "attempt" /\ analysis'.attempt = analysis.attempt + 1) =>
              analysis'.last_exc.cause \in TransientCauses
       /\ \A e \in ModelCallErrors :
              (ModelCallFailsWith(e) /\ e.cause \notin TransientCauses) =>
                  /\ analysis'.attempt = analysis.attempt
                  /\ ReturnedEmpty]_vars

\* C33: a cache row is written only for a review the batch call returned a
\* valid result for: after a batch is processed, a review that its outputs left
\* out (the call failed, timed out or omitted the index) has no row in the
\* cache, so that a later call finds it uncached.
C33_OnlyValidResultsCached ==
    BatchProcessed =>
        \A i \in 1..Len(LastChunk) :
           analysis.outputs[i] = Absent =>
              \A row \in review_sentiment_cache :
                 row.text_hash # analysis.hashes[LastChunk[i]]

\* no two rows hold the same hash
OnePerHash(rows) == \A r1, r2 \in rows : r1.text_hash = r2.text_hash => r1 = r2
\* session s executes an upsert
UpsertStep(s) ==
    /\ transactions[s].pc = "upsert"
    /\ transactions'[s].pos = transactions[s].pos + 1

\* C34: whatever the interleaving of the sessions and however often a batch
\* is executed, the committed cache and what each transaction sees hold at
\* most one row per hash; a committed row keeps its id and hash for good (an
\* upsert of its hash updates it); and an upsert whose values are those of the
\* row it meets leaves the rows unchanged.
C34_UpsertKeepsOneRowPerHash ==
    [][/\ OnePerHash(cache_table')
       /\ \A s \in Sessions : OnePerHash(SessionView(cache_table', transactions'[s]))
       /\ \A r \in cache_table :
             \E r2 \in cache_table' : r2.id = r.id /\ r2.text_hash = r.text_hash
       /\ Cardinality(cache_table') <= Cardinality(Hashes)
       /\ \A s \in Sessions :
             UpsertStep(s) =>
                LET h == transactions[s].batch[transactions[s].pos]
                    before == SessionView(cache_table, transactions[s])
                    after == SessionView(cache_table', transactions'[s])
                IN ({r \in after : r.text_hash = h} \subseteq before) => after = before]_vars
\* both sessions upserted the same hash, the second after the first committed:
\* two ids were drawn, one row is stored, under the first id
C34_Witness ==
    /\ \A s \in Sessions : transactions[s].pc = "done" /\ transactions[s].batch = <<(<<"a">>)>>
    /\ next_id = 3
    /\ \E v \in UpsertValues : cache_table = {CacheRow(1, <<"a">>, v)}

\* C35: a turn whose trace write raised still ends with the computed assistant
\* response as the last message of the chat history, and keeps the view-state
\* change that its tool call made.
C35_TraceFailureKeepsResponse ==
    (pc = "turn_done" /\ outcome = "trace_raised") =>
        /\ chat_messages # <<>>
        /\ chat_messages[Len(chat_messages)] = "assistant"
        /\ app = "Analytics_Chat" => CurrentView = PlotInteractions(prev_state, validated)

\* C36: when a chat turn starts (the page has rendered and the handler is
\* about to run), compare_pair is unset or names two categories of the user's
\* current allowed-category list, and rating_dist_category is unset or names
\* one, also after an admin changed the user's access during the session.
C36_ViewNamesAllowedCategories ==
    pc = "handler" =>
        /\ compare_pair # NoPair =>
               compare_pair[1] \in allowed_categories /\ compare_pair[2] \in allowed_categories
        /\ rating_dist_category # NoCategory => rating_dist_category \in allowed_categories

\* the histogram shows another category than the first of the active comparison
HistogramOffComparison(pair, category) == pair # NoPair /\ category # pair[1]

\* C37 as stated: whenever compare_pair is set, rating_dist_category is its
\* first category.
C37_HistogramFollowsComparison ==
    compare_pair # NoPair => rating_dist_category = compare_pair[1]
\* C37: a compare_categories turn leaves rating_dist_category equal to the
\* first category of compare_pair; the two come apart only by a later
\* rating_distribution turn, which sets rating_dist_category to its category
\* and leaves compare_pair in place, and then stay as they are until another
\* tool call or the render step changes them.
C37_HistogramLeavesComparisonOnRequest ==
    [][/\ (pc = "handler" /\ pc' = "turn_done" /\ validated'.tool = "compare_categories"
              /\ outcome' \notin {"validate_raised", "run_raised"}) =>
             ~HistogramOffComparison(compare_pair', rating_dist_category')
       /\ HistogramOffComparison(compare_pair', rating_dist_category') =>
             \/ /\ HistogramOffComparison(compare_pair, rating_dist_category)
                /\ UNCHANGED <<compare_pair, rating_dist_category>>
             \/ /\ pc = "handler" /\ pc' = "turn_done"
                /\ validated'.tool = "rating_distribution"
                /\ compare_pair' = compare_pair
                /\ rating_dist_category' = validated'.args.category.s]_vars
\* the comparison of A and B is active and a rating_distribution turn has just
\* moved the histogram to B
C37_Witness ==
    /\ pc = "turn_done" /\ app = "Analytics_Chat"
    /\ validated.tool = "rating_distribution"
    /\ prev_state.compare_pair = <<CatA, CatB>>
    /\ prev_state.rating_dist_category = CatA
    /\ compare_pair = <<CatA, CatB>>
    /\ rating_dist_category = CatB

\* the validated call, handed to the validator as a candidate
AsCandidate(call) == Candidate(StrV(call.tool), call.args, call.rationale)

\* C38: validating the call that validate_tool_call returned, with the same
\* allowed set, returns the same tool and the same args.
C38_ValidatorIdempotent ==
    (pc = "validated" /\ ~validated.raised) =>
        LET again == validate_tool_call(AsCandidate(validated), allowed_categories)
        IN /\ ~again.raised
           /\ again.tool = validated.tool
           /\ again.args = validated.args

\* the turn that has just ended, run again on the same session and with the
\* same model and database outcomes, the candidate's rationale replaced by r
TurnWithRationale(r, llm, trace) ==
    LET before == IF prev_state = NoPrevState THEN CurrentView ELSE prev_state
        sent == Len(chat_messages) - (IF outcome = "ok" THEN 2 ELSE 1)
        msgs == SubSeq(chat_messages, 1, sent)
        resp == ClassifierResponse("dict", [router_out EXCEPT !.rationale = r])
    IN IF app = "Analytics_Chat"
       THEN AnalyticsChatTurn(before, msgs, visible_categories, allowed_categories, resp,
                              llm, trace)
       ELSE StreamlitAppTurn(before, msgs, visible_categories, allowed_categories, resp,
                             llm, trace)

\* C40: the rationale of the classifier's candidate decides nothing: with any
\* other rationale in its place the validator returns the same tool, args and
\* fallback_reason (or raises alike), and the turn ends the same way, with the
\* same response text, the same chat history and the same view.
C40_RationaleDecidesNothing ==
    (pc = "turn_done" /\ ~route_failed) =>
        \A r \in Rationales :
           LET call == validate_tool_call([router_out EXCEPT !.rationale = r],
                                          allowed_categories)
           IN /\ call.raised <=> outcome = "validate_raised"
              /\ call.tool = validated.tool
              /\ call.args = validated.args
              /\ call.fallback_reason = validated.fallback_reason
              /\ \E llm \in WriterOutcomes, trace \in TraceOutcomes :
                    LET turn == TurnWithRationale(r, llm, trace)
                    IN /\ turn.outcome = outcome
                       /\ turn.assistant_text = assistant_text
                       /\ turn.chat_messages = chat_messages
                       /\ turn.view = CurrentView
                       /\ turn.tool_result = tool_result
\* a completed general_query turn whose candidate carried a rationale, which
\* the validated call passes on to the trace
C40_Witness ==
    /\ pc = "turn_done" /\ ~route_failed /\ outcome = "ok"
    /\ router_out.rationale = StrV("because")
    /\ validated.tool = "general_query"
    /\ validated.rationale = StrV("because")
    /\ validated.fallback_reason = NoReason
    /\ chat_messages[Len(chat_messages)] = "assistant"

\* C39: every row of message_traces carries the conversation_id of a
\* conversation whose user_id is the row's own user_id, whatever the logins,
\* logouts and chat turns of the browser sessions.
C39_TraceInOwnConversation ==
    \A i \in 1..Len(traces) :
       \E c \in conversations :
          c.id = traces[i].conversation_id /\ c.user_id = traces[i].user_id

=============================================================================
